---- MODULE Spec2Model ----
(***************************************************************************)
(* A model of the UFCStats scraper's crawl-and-extract pipeline:           *)
(*   - get_page_content  (fetch.py): the retried, backed-off HTTP GET      *)
(*   - fetch_parallel    (fetch.py): the bounded worker pool               *)
(*   - Fighter.__init__  (fighter.py): the FIGHTER_CACHE / CACHE_LOCK path *)
(*   - Round.create_round (round.py): row-to-participant matching          *)
(*   - Event.create_fights / Fight.create_fight: the orchestrated run      *)
(* Each component has a specification of its own; the variables of the     *)
(* other components stay unchanged under it.                               *)
(***************************************************************************)
EXTENDS Integers, Sequences, FiniteSets, TLC

VARIABLES
    \* ---- get_page_content ----
    gpc_pc,        \* "try" | "backoff" | "returned" | "raised"
    attempt,       \* the loop variable of `for attempt in range(1, max_retries + 1)`
    tried,         \* history: the outcome of every SESSION.get so far, in order
    sleeps,        \* history: every time.sleep() issued, in order
    gpcResult,     \* "pending" | None | Doc
    \* ---- fetch_parallel ----
    urls,          \* the argument: a list of URLs
    max_workers,   \* the argument: the width of the pool
    fp_pc,         \* "submit" | "collect" | "returned" | "raised"
    futures,       \* future_to_url with each future's state and outcome
    collected,     \* the futures as_completed has already yielded
    results,       \* the dict being built: URL -> soup
    \* ---- Round.create_round ----
    rd_pc,         \* "call" | "done"
    fighter_links, \* the Fight's (fighter_a.link, fighter_b.link)
    headers,       \* per "Round N" header found on the page: the <tr> after it
    round,         \* the constructed Round, or the exception raised
    \* ---- FIGHTER_CACHE and Fighter.__init__ ----
    FIGHTER_CACHE, \* fetch.FIGHTER_CACHE: fighter URL -> Fighter object (its id)
    CACHE_LOCK,    \* fetch.CACHE_LOCK: the thread holding it, 0 when free
    heap,          \* the Fighter objects allocated so far, by id
    th,            \* per resolving thread: where it is inside Fighter.__init__
    fetched,       \* history: get_page_content calls per fighter URL
    inserts,       \* history: FIGHTER_CACHE[link] = self executions per URL
    resolved,      \* history: the constructor calls that have returned
    \* ---- the run: main, Event.create_fights, Fight.create_fight ----
    pl_pc,         \* "setup" | "create_events" | "main" | "links" | "fetch" | "fights" | "fighter_a" |
                   \* "fighter_b" | "details" | "create_rounds" | "finished"
    events,        \* events_manager.events: each Event with its fights
    ev,            \* the index of the Event main's loop is at
    fight_links,   \* create_fights: fight_links
    fight_soups,   \* create_fights: fight_soups (TRUE: a soup, FALSE: None)
    li,            \* create_fights: the position of `for link in fight_links`
    fight,         \* the Fight whose constructor is running
    visited,       \* history: the (event, fight link) pairs the loop body ran for
    escaped,       \* history: an exception left create_fights
    \* ---- main: the two sinks ----
    sql,           \* what to_sql committed to the database, if it ran
    csv,           \* what to_csv wrote to UFCStats.csv, if it ran
    interrupted,   \* history: a KeyboardInterrupt ended the run
    \* ---- Events.create_events ----
    ce_pc,         \* "idle" | "rows" | "returned"
    tbody,         \* the <tr> children of the events table body, in order
    start_date,    \* the argument: the cutoff date, or None
    event_rows,    \* future_event.find_next_siblings(...): positions in tbody
    ce_i,          \* the position of `for event_row in ...`
    \* ---- RoundStats.create_roundstats: the landed/attempted counters ----
    st_pc,         \* "call" | "done"
    totals_cells,  \* the fighter's texts in the totals row, None without a row
    sig_cells,     \* the same for the significant-strikes row
    stats,         \* the counters of the RoundStats object
    \* ---- Fight.parse_weight_class ----
    wc_pc,         \* "call" | "done"
    weight_class_str, \* the text of the fight-title element, as characters
    weighed,       \* the Fight's weight_class, gender and title_fight
    \* ---- Events.to_csv: the row of one fight ----
    ex_pc,         \* "call" | "done"
    ex_fight,      \* the fight: its round_of_victory and its rounds
    base_row,      \* the row to_csv builds for it
    \* ---- the thread pools and requests of a run ----
    rn_pc,         \* where the orchestrating thread is, see RnInit
    rn_ev,         \* how many events the loop of main has taken
    rn_links,      \* len(fight_links) of the event in hand
    rn_li,         \* the position of `for link in fight_links`
    pools,         \* the executors with work items queued or running
    own_request,   \* the orchestrating thread is inside get_page_content
    constructing   \* the orchestrating thread is inside Fighter.__init__

fetchVars == <<gpc_pc, attempt, tried, sleeps, gpcResult>>
batchVars == <<urls, max_workers, fp_pc, futures, collected, results>>

roundVars == <<rd_pc, fighter_links, headers, round>>

cacheVars == <<FIGHTER_CACHE, CACHE_LOCK, heap, th, fetched, inserts, resolved>>

pipeVars == <<pl_pc, events, ev, fight_links, fight_soups, li, fight, visited, escaped>>

sinkVars == <<sql, csv, interrupted>>

listVars == <<ce_pc, tbody, start_date, event_rows, ce_i>>

statVars == <<st_pc, totals_cells, sig_cells, stats>>

weightVars == <<wc_pc, weight_class_str, weighed>>

exportVars == <<ex_pc, ex_fight, base_row>>

poolVars == <<rn_pc, rn_ev, rn_links, rn_li, pools, own_request, constructing>>

vars == <<fetchVars, batchVars, roundVars, cacheVars, pipeVars, sinkVars, listVars, statVars, weightVars, exportVars, poolVars>>

\* Python's None.
None == "None"

(***************************************************************************)
(* get_page_content                                                        *)
(***************************************************************************)
max_retries == 5
base_delay == 1
DnsExtraDelay == 10

\* The parsed document get_page_content returns on success.
Doc == "Doc"

\* HTTP status codes a response may carry.
StatusCodes == {200, 404, 503}

\* Exceptions an attempt may raise, by class name.
ExcKinds == {"ConnectionError", "NameResolutionError", "FeatureNotFound"}

\* requests.ConnectionError is a requests.RequestException; urllib3's
\* NameResolutionError and bs4's FeatureNotFound are not.
IsRequestException(e) == e \in {"ConnectionError", "Timeout"}

\* What one pass through the try block can meet: a response with a status
\* (whose body then parses, or whose parse raises), or an exception raised
\* by SESSION.get.
\* The classes under which a failed name resolution leaves SESSION.get:
\* requests.Session.get re-raises the errors of its urllib3 connection as
\* requests.ConnectionError; NameResolutionError is the urllib3 class the
\* second except clause names.
RaisedOnDnsFailure == {"ConnectionError", "NameResolutionError"}

\* cause = "dns" marks an attempt that failed on name resolution.
AttemptOutcomes ==
    [kind : {"response"}, status : StatusCodes, exc : {None}, cause : {None}]
      \cup [kind : {"response"}, status : {200}, exc : {"FeatureNotFound"}, cause : {None}]
      \cup [kind : {"raise"}, status : {None},
            exc : ExcKinds \ {"NameResolutionError"}, cause : {None}]
      \cup [kind : {"raise"}, status : {None}, exc : RaisedOnDnsFailure, cause : {"dns"}]

\* random.uniform(0.1, 0.5), in tenths of a time unit.
JitterTenths == {1, 5}

StatusOk_BelowServerError(status_code) == status_code < 500

\* if response.status_code == 200:
StatusOk(status_code) == status_code = 200

\* An attempt returns the document: status 200 and the parse did not raise.
Succeeds(o) == o.kind = "response" /\ o.status = 200 /\ o.exc = None

\* The except clause that catches exception e, in source order.
CaughtBy_NoCatchAll(e) ==
    IF IsRequestException(e) THEN "RequestException"
    ELSE IF e = "NameResolutionError" THEN "NameResolutionError"
    ELSE "uncaught"

CaughtBy(e) ==
    IF IsRequestException(e) THEN "RequestException"
    ELSE IF e = "NameResolutionError" THEN "NameResolutionError"
    ELSE "Exception"

\* delay = base_delay * (2 ** (attempt - 1))
BackoffDelay_OffByOne(a) == base_delay * (2 ^ a)

BackoffDelay(a) == base_delay * (2 ^ (a - 1))

SleepJitter(j) == [kind |-> "jitter", tenths |-> j]
SleepDns == [kind |-> "dns", secs |-> DnsExtraDelay]
SleepBackoff(d) == [kind |-> "backoff", secs |-> d]

GpcInit ==
    /\ gpc_pc = "try"
    /\ attempt = 1
    /\ tried = <<>>
    /\ sleeps = <<>>
    /\ gpcResult = "pending"

GpcIdle ==
    /\ gpc_pc = "returned"
    /\ attempt = 1
    /\ tried = <<>>
    /\ sleeps = <<>>
    /\ gpcResult = None

\* The try block of one loop iteration with its except clauses.
GpcTry(o, j) ==
    /\ gpc_pc = "try"
    /\ tried' = Append(tried, o)
    /\ attempt' = attempt
    /\ IF o.kind = "response"
       THEN IF StatusOk(o.status)
            THEN \* time.sleep(random.uniform(0.1, 0.5)), then the parse
                 /\ sleeps' = Append(sleeps, SleepJitter(j))
                 /\ IF o.exc = None
                    THEN gpc_pc' = "returned" /\ gpcResult' = Doc
                    ELSE /\ gpc_pc' = (IF CaughtBy(o.exc) = "uncaught"
                                       THEN "raised" ELSE "backoff")
                         /\ gpcResult' = gpcResult
            ELSE /\ j = 1
                 /\ sleeps' = sleeps
                 /\ gpc_pc' = "backoff"
                 /\ gpcResult' = gpcResult
       ELSE /\ j = 1
            /\ sleeps' = (IF CaughtBy(o.exc) = "NameResolutionError"
                          THEN Append(sleeps, SleepDns) ELSE sleeps)
            /\ gpc_pc' = (IF CaughtBy(o.exc) = "uncaught" THEN "raised" ELSE "backoff")
            /\ gpcResult' = gpcResult

\* The back-off after a failed attempt; after the last one the loop ends
\* and the function returns None.
GpcBackoff ==
    /\ gpc_pc = "backoff"
    /\ sleeps' = Append(sleeps, SleepBackoff(BackoffDelay(attempt)))
    /\ tried' = tried
    /\ IF attempt < max_retries
       THEN attempt' = attempt + 1 /\ gpc_pc' = "try" /\ gpcResult' = gpcResult
       ELSE attempt' = attempt /\ gpc_pc' = "returned" /\ gpcResult' = None

(***************************************************************************)
(* fetch_parallel                                                          *)
(***************************************************************************)
NumUrls == 2
MaxUrls == 3
MaxWorkers == 2

Urls == 1..NumUrls

\* What fetch_parallel stores for a URL: the soup get_page_content returned
\* for it, or None.
SoupOf(u) == [soup |-> Doc, of |-> u]
NoSoup == [soup |-> None, of |-> 0]

Range(s) == {s[i] : i \in DOMAIN s}

SeqsUpTo(S, n) == UNION {[1..k -> S] : k \in 0..n}

\* dict[key] = value
DictPut(d, k, v) == [x \in DOMAIN d \cup {k} |-> IF x = k THEN v ELSE d[x]]

NewFuture(u) == [url |-> u, state |-> "queued", raised |-> FALSE, value |-> NoSoup]

Running == {i \in DOMAIN futures : futures[i].state = "running"}
Queued == {i \in DOMAIN futures : futures[i].state = "queued"}

FpInit ==
    /\ urls \in SeqsUpTo(Urls, MaxUrls)
    /\ max_workers \in 1..MaxWorkers
    /\ fp_pc = "submit"
    /\ futures = <<>>
    /\ collected = {}
    /\ results = <<>>

BatchIdle ==
    /\ urls = <<>>
    /\ max_workers = 1
    /\ fp_pc = "returned"
    /\ futures = <<>>
    /\ collected = {}
    /\ results = <<>>

\* executor.submit(get_page_content, url), one URL of the comprehension.
FpSubmit ==
    /\ fp_pc = "submit"
    /\ Len(futures) < Len(urls)
    /\ futures' = Append(futures, NewFuture(urls[Len(futures) + 1]))
    /\ UNCHANGED <<urls, max_workers, fp_pc, collected, results>>

\* The comprehension is exhausted: the as_completed loop starts.
FpSubmitted ==
    /\ fp_pc = "submit"
    /\ Len(futures) = Len(urls)
    /\ fp_pc' = "collect"
    /\ UNCHANGED <<urls, max_workers, futures, collected, results>>

\* ThreadPoolExecutor(max_workers=max_workers): a work item is taken up
\* only by a pool thread that is free, and the pool has max_workers threads.
ThreadFree_AnyWidth(running, width) == TRUE

ThreadFree(running, width) == Cardinality(running) < width

\* A pool thread takes the oldest queued work item.
WorkerStart(i) ==
    /\ i \in Queued
    /\ \A k \in Queued : i <= k
    /\ ThreadFree(Running, max_workers)
    /\ futures' = [futures EXCEPT ![i].state = "running"]
    /\ UNCHANGED <<urls, max_workers, fp_pc, collected, results>>

\* get_page_content(url) ends in the worker: with a soup, with None, or
\* with an exception stored in the future.
WorkerFinish(i, out) ==
    /\ i \in Running
    /\ futures' = [futures EXCEPT ![i] =
                      [url |-> @.url, state |-> "done",
                       raised |-> (out = "raise"),
                       value |-> IF out = "soup" THEN SoupOf(@.url) ELSE NoSoup]]
    /\ UNCHANGED <<urls, max_workers, fp_pc, collected, results>>

\* The body of the as_completed loop for future f: results[url] is set to
\* future.result(), or to None when result() raises.
ResultsAfter_DropFailed(res, f) ==
    IF f.raised THEN res ELSE DictPut(res, f.url, f.value)

ResultsAfter(res, f) ==
    IF f.raised THEN DictPut(res, f.url, NoSoup) ELSE DictPut(res, f.url, f.value)

FpCollect(i) ==
    /\ fp_pc = "collect"
    /\ i \in DOMAIN futures
    /\ i \notin collected
    /\ futures[i].state = "done"
    /\ results' = ResultsAfter(results, futures[i])
    /\ collected' = collected \cup {i}
    /\ UNCHANGED <<urls, max_workers, fp_pc, futures>>

\* as_completed is exhausted; the with block shuts the pool down; return.
FpReturn ==
    /\ fp_pc = "collect"
    /\ collected = DOMAIN futures
    /\ fp_pc' = "returned"
    /\ UNCHANGED <<urls, max_workers, futures, collected, results>>

(***************************************************************************)
(* Round.create_round and RoundStats                                       *)
(***************************************************************************)
\* Fighter-details URLs.
FighterLinks == {"fighter/a", "fighter/b", "fighter/c"}

\* Optional[int]: None is <<>>, the integer n is <<n>>.
NoneInt == <<>>
SomeInt(n) == <<n>>

\* The text of a knockdowns cell.
KdTexts == {"0", "2", "--"}

\* RoundStats.to_int: int(text) if text.isdigit() else None
ToInt(text) ==
    CASE text = "0" -> SomeInt(0)
      [] text = "2" -> SomeInt(2)
      [] OTHER -> NoneInt

\* A <tr>: for each table position the <p> of the first cell (the href of
\* its anchor, None without one) and the text of the knockdowns cell.
\* NoTr is Python's None where a <tr> is expected.
Paragraphs == [href : FighterLinks \cup {None}, kd : KdTexts]
Tr(ps) == [tr |-> TRUE, p |-> ps]
NoTr == [tr |-> FALSE, p |-> <<>>]
TotalsRows == {Tr(ps) : ps \in SeqsUpTo(Paragraphs, 2)}

\* The significant-strikes row is not read for the fighter link.
SigStrikesTr == Tr(<<>>)

\* What find_all("th", "Round N") and find_next("tr") can deliver: no
\* header, a header with or without a following row, or both headers.
HeaderRows ==
    {<<>>, <<NoTr>>}
      \cup {<<t>> : t \in TotalsRows}
      \cup {<<t, SigStrikesTr>> : t \in TotalsRows}

\* A RoundStats object as its constructor leaves it: every attribute None.
DefaultRoundStats(pos) ==
    [raised |-> "", position |-> pos, fighter_link |-> None, knockdowns |-> NoneInt]

RaisedStats(pos, e) ==
    [raised |-> e, position |-> pos, fighter_link |-> None, knockdowns |-> NoneInt]

\* RoundStats.parse_total_stats: p = rows[0].find_all('p')[position] raises
\* IndexError when the cell has no such <p>.
ParseTotalStats(totals_tr, pos) ==
    IF Len(totals_tr.p) < pos + 1
    THEN RaisedStats(pos, "IndexError")
    ELSE [raised |-> "", position |-> pos,
          fighter_link |-> totals_tr.p[pos + 1].href,
          knockdowns |-> ToInt(totals_tr.p[pos + 1].kd)]

\* RoundStats.__init__ / create_roundstats
RoundStats(totals_tr, sig_strikes_tr, pos) ==
    IF totals_tr.tr THEN ParseTotalStats(totals_tr, pos) ELSE DefaultRoundStats(pos)

\* self.fighter_a_roundstats = stats_by_link[link_a]; ..._b... = [link_b]
AssignSides_ByPosition(stats_by_link, rs0, rs1, links) ==
    [raised |-> "", fighter_a_roundstats |-> rs0, fighter_b_roundstats |-> rs1]

AssignSides(stats_by_link, rs0, rs1, links) ==
    [raised |-> "",
     fighter_a_roundstats |-> stats_by_link[links[1]],
     fighter_b_roundstats |-> stats_by_link[links[2]]]

RaisedRound(e) ==
    [raised |-> e,
     fighter_a_roundstats |-> DefaultRoundStats(0),
     fighter_b_roundstats |-> DefaultRoundStats(1)]

\* if link_a not in stats_by_link or link_b not in stats_by_link: raise
LinksMissing(stats_by_link, links) ==
    \/ links[1] \notin DOMAIN stats_by_link
    \/ links[2] \notin DOMAIN stats_by_link

\* Round.create_round, from the rows that follow the "Round N" headers.
CreateRound(hdrs, links) ==
    LET rows == hdrs \o <<NoTr, NoTr>>
        totals_tr == rows[1]
        sig_strikes_tr == rows[2]
        rs0 == RoundStats(totals_tr, sig_strikes_tr, 0)
        rs1 == RoundStats(totals_tr, sig_strikes_tr, 1)
        stats_by_link == DictPut(DictPut(<<>>, rs0.fighter_link, rs0),
                                 rs1.fighter_link, rs1)
    IN  IF rs0.raised # "" THEN RaisedRound(rs0.raised)
        ELSE IF rs1.raised # "" THEN RaisedRound(rs1.raised)
        ELSE IF LinksMissing(stats_by_link, links) THEN RaisedRound("ValueError")
        ELSE AssignSides(stats_by_link, rs0, rs1, links)

NotConstructed == RaisedRound("pending")

RdInit ==
    /\ rd_pc = "call"
    /\ fighter_links \in FighterLinks \X FighterLinks
    /\ headers \in HeaderRows
    /\ round = NotConstructed

RoundIdle ==
    /\ rd_pc = "done"
    /\ fighter_links = <<"fighter/a", "fighter/b">>
    /\ headers = <<>>
    /\ round = NotConstructed

\* Round(round_number, fight_page_soup, fighter_links)
RdCreate ==
    /\ rd_pc = "call"
    /\ round' = CreateRound(headers, fighter_links)
    /\ rd_pc' = "done"
    /\ UNCHANGED <<fighter_links, headers>>

(***************************************************************************)
(* Fighter.__init__, Fighter.create_fighter and FIGHTER_CACHE              *)
(***************************************************************************)
NumResolvers == 2
MaxResolutions == 2

Resolvers == 1..NumResolvers

\* The fighter URLs resolved through the cache.
CacheLinks == {"fighter/a", "fighter/b"}

\* A fighter page, by what the parse helpers extract from it. `raises`
\* marks a page whose details reach parse_height / parse_dob with a
\* non-empty text: fighter.py uses re and datetime there without importing
\* them, scraper.py imports both.
PageFull ==
    [ok |-> TRUE, name |-> "Ann", height_in |-> "73", reach_in |-> "76",
     dob |-> "1990-05-01", raises |-> FALSE]
PageNoName ==
    [ok |-> TRUE, name |-> None, height_in |-> "70", reach_in |-> None,
     dob |-> None, raises |-> FALSE]
PageRaises ==
    [ok |-> TRUE, name |-> "Ann", height_in |-> "73", reach_in |-> "76",
     dob |-> "1990-05-01", raises |-> TRUE]
FighterPages == {PageFull, PageNoName, PageRaises}

\* get_page_content returned None / no soup was handed in.
NoPage ==
    [ok |-> FALSE, name |-> None, height_in |-> None, reach_in |-> None,
     dob |-> None, raises |-> FALSE]

\* A Fighter object right after self.link = link: the dataclass defaults.
NewFighter(link) ==
    [link |-> link, name |-> None, height_in |-> None, reach_in |-> None, dob |-> None]

\* The cache-hit branch: the four fields are copied from the cached object.
CopyCached_NameOnly(self, cached) == [self EXCEPT !.name = cached.name]

CopyCached(self, cached) ==
    [self EXCEPT !.name = cached.name, !.height_in = cached.height_in,
                 !.reach_in = cached.reach_in, !.dob = cached.dob]

\* Fighter.create_fighter on the page it ends up with (the soup handed in,
\* or what its own get_page_content call returned).
CreateFighter(self, page) ==
    IF ~page.ok THEN self
    ELSE [self EXCEPT !.name = page.name, !.height_in = page.height_in,
                      !.reach_in = page.reach_in, !.dob = page.dob]

\* After create_fighter: `FIGHTER_CACHE[self.link] = self`, unconditionally.
CacheAfterCreate(cache, link, id, fighter) == DictPut(cache, link, id)

Bump(f, k) == [f EXCEPT ![k] = @ + 1]

IdleThread == [pc |-> "idle", self |-> 0, has_soup |-> FALSE]

CacheEmpty ==
    /\ FIGHTER_CACHE = <<>>
    /\ CACHE_LOCK = 0
    /\ heap = <<>>
    /\ fetched = [l \in CacheLinks |-> 0]
    /\ inserts = [l \in CacheLinks |-> 0]
    /\ resolved = {}

FiInit ==
    /\ CacheEmpty
    /\ th = [t \in Resolvers |-> IdleThread]

CacheIdle ==
    /\ CacheEmpty
    /\ th = <<>>

\* Fighter(link, fighter_soup) is called on thread t, with or without a
\* pre-fetched soup: self.link = link.
FiCall(t, link, has_soup) ==
    /\ th[t].pc = "idle"
    /\ Len(heap) < MaxResolutions
    /\ heap' = Append(heap, NewFighter(link))
    /\ th' = [th EXCEPT ![t] = [pc |-> "lock1", self |-> Len(heap) + 1,
                                  has_soup |-> has_soup]]
    /\ UNCHANGED <<FIGHTER_CACHE, CACHE_LOCK, fetched, inserts, resolved>>

\* `with CACHE_LOCK:` is entered (the first or the second block).
FiAcquire(t) ==
    /\ th[t].pc \in {"lock1", "lock2"}
    /\ CACHE_LOCK = 0
    /\ CACHE_LOCK' = t
    /\ th' = [th EXCEPT ![t].pc = IF @ = "lock1" THEN "check" ELSE "insert"]
    /\ UNCHANGED <<FIGHTER_CACHE, heap, fetched, inserts, resolved>>

\* The first block: on a hit copy the cached fields and return; on a miss
\* leave the block. Either way the lock is released.
FiCheck(t) ==
    /\ th[t].pc = "check"
    /\ CACHE_LOCK = t
    /\ CACHE_LOCK' = 0
    /\ LET id == th[t].self
           link == heap[id].link
       IN  IF link \in DOMAIN FIGHTER_CACHE
           THEN /\ heap' = [heap EXCEPT ![id] = CopyCached(@, heap[FIGHTER_CACHE[link]])]
                /\ th' = [th EXCEPT ![t] = IdleThread]
                /\ resolved' = resolved \cup {[obj |-> id, link |-> link, path |-> "hit"]}
           ELSE /\ th' = [th EXCEPT ![t].pc = "create"]
                /\ UNCHANGED <<heap, resolved>>
    /\ UNCHANGED <<FIGHTER_CACHE, fetched, inserts>>

\* self.create_fighter(fighter_soup), outside the lock. `page` is the soup
\* handed in or, without one, what get_page_content(self.link) returns.
FiCreate(t, page) ==
    /\ th[t].pc = "create"
    /\ LET id == th[t].self
           link == heap[id].link
       IN  /\ th[t].has_soup => page.ok
           /\ fetched' = IF th[t].has_soup THEN fetched ELSE Bump(fetched, link)
           /\ IF page.ok /\ page.raises
              THEN \* the exception leaves __init__: nothing is inserted
                   /\ heap' = [heap EXCEPT ![id].name = page.name]
                   /\ th' = [th EXCEPT ![t] = IdleThread]
              ELSE /\ heap' = [heap EXCEPT ![id] = CreateFighter(@, page)]
                   /\ th' = [th EXCEPT ![t].pc = "lock2"]
    /\ UNCHANGED <<FIGHTER_CACHE, CACHE_LOCK, inserts, resolved>>

\* The second block: FIGHTER_CACHE[self.link] = self; the constructor returns.
FiInsert(t) ==
    /\ th[t].pc = "insert"
    /\ CACHE_LOCK = t
    /\ CACHE_LOCK' = 0
    /\ LET id == th[t].self
           link == heap[id].link
       IN  /\ FIGHTER_CACHE' = CacheAfterCreate(FIGHTER_CACHE, link, id, heap[id])
           /\ inserts' = IF FIGHTER_CACHE' = FIGHTER_CACHE /\ link \notin DOMAIN FIGHTER_CACHE
                          THEN inserts ELSE Bump(inserts, link)
           /\ resolved' = resolved \cup {[obj |-> id, link |-> link, path |-> "miss"]}
    /\ th' = [th EXCEPT ![t] = IdleThread]
    /\ UNCHANGED <<heap, fetched>>

\* A caller assigns to a field of a Fighter it was given (the dataclass is
\* not frozen). One assignment per run is followed.
Mutated == "Mutated"

FiMutate(id) ==
    /\ id \in {r.obj : r \in resolved}
    /\ \A i \in DOMAIN heap : heap[i].name # Mutated
    /\ heap' = [heap EXCEPT ![id].name = Mutated]
    /\ UNCHANGED <<FIGHTER_CACHE, CACHE_LOCK, th, fetched, inserts, resolved>>

(***************************************************************************)
(* The run: main's loop, Event.create_fights, Fight.create_fight           *)
(***************************************************************************)
MaxFights == 2

\* What a fight page can show: its person-link anchors (exactly two on a
\* well-formed page), the ROUND detail as parse_round_of_victory reads it,
\* and per round whether the "Round N" header and its rows are there.
\* A page is read piece by piece, so each piece is drawn where it is read.
FightAnchors ==
    {<<"fighter/a", "fighter/b">>, <<"fighter/a">>}
RoundsOfVictory == {NoneInt, SomeInt(2)}
RoundLayouts == [1..2 -> {"rows", "noheader"}]
\* The rows that follow the "Round N" headers of a page, for create_round.
HeadersOf(kind, links) ==
    IF kind = "rows"
    THEN <<Tr(<<[href |-> links[1], kd |-> "0"], [href |-> links[2], kd |-> "2"]>>),
           SigStrikesTr>>
    ELSE <<>>

\* Fighter(link, soup) run to its end on the calling thread. st carries
\* FIGHTER_CACHE, heap and the histories; `got` is what create_fighter's
\* own get_page_content call returns when no soup was handed in.
FighterInit(st, link, soup, got) ==
    LET id == Len(st.heap) + 1
        self == NewFighter(link)
    IN  IF link \in DOMAIN st.cache
        THEN [st EXCEPT !.heap = Append(@, CopyCached(self, st.heap[st.cache[link]])),
                        !.resolved = @ \cup {[obj |-> id, link |-> link, path |-> "hit"]}]
        ELSE LET page == IF soup.ok THEN soup ELSE got
                 f == IF soup.ok THEN st.fetched ELSE Bump(st.fetched, link)
             IN  IF page.ok /\ page.raises
                 THEN [st EXCEPT !.raised = "NameError",
                                 !.heap = Append(@, [self EXCEPT !.name = page.name]),
                                 !.fetched = f]
                 ELSE LET fighter == CreateFighter(self, page)
                      IN  [st EXCEPT
                             !.heap = Append(@, fighter),
                             !.fetched = f,
                             !.cache = CacheAfterCreate(@, link, id, fighter),
                             !.inserts = Bump(@, link),
                             !.resolved = @ \cup {[obj |-> id, link |-> link, path |-> "miss"]}]

RoundNumbers_Descending(num_rounds) ==
    [i \in 1..num_rounds |-> num_rounds + 1 - i]

\* range(1, num_rounds + 1), in iteration order.
RoundNumbers(num_rounds) ==
    [i \in 1..num_rounds |-> i]

\* Fight.create_rounds: Round(1..num_rounds); range(1, None + 1) raises.
CreateRounds(num_rounds, layout, links) ==
    IF num_rounds = NoneInt
    THEN [raised |-> "TypeError", rounds |-> <<>>]
    ELSE LET numbers == RoundNumbers(num_rounds[1])
             made == [n \in DOMAIN numbers |->
                        CreateRound(HeadersOf(layout[numbers[n]], links), links)]
             bad == {n \in DOMAIN made : made[n].raised # ""}
         IN  IF bad # {}
             THEN [raised |-> made[CHOOSE n \in bad : \A k \in bad : n <= k].raised,
                   rounds |-> <<>>]
             ELSE [raised |-> "",
                   rounds |-> [n \in DOMAIN made |->
                       [round_number |-> numbers[n],
                        fighter_a_roundstats |-> made[n].fighter_a_roundstats,
                        fighter_b_roundstats |-> made[n].fighter_b_roundstats]]]

NoFight == [link |-> <<0, 0>>, fighter_links |-> <<>>, fighter_a |-> 0, fighter_b |-> 0,
            round_of_victory |-> NoneInt, rounds |-> <<>>]

\* if self.fighter_a is None or self.fighter_b is None: return
FightersMissing(heap_, a, b) == FALSE

\* The state a Fighter constructor starts from.
RunState ==
    [cache |-> FIGHTER_CACHE, heap |-> heap, fetched |-> fetched, inserts |-> inserts,
     resolved |-> resolved, raised |-> ""]

\* The try/except of create_fights' loop body: an exception is logged and
\* the loop goes on.
Caught_Reraised(raised) == FALSE

Caught(raised) == TRUE

\* The rows a sink receives: per event, the links of its fights.
Rows(evs) == [e \in DOMAIN evs |-> [i \in DOMAIN evs[e].fights |-> evs[e].fights[i].link]]

HasRows(evs) == \E e \in DOMAIN evs : evs[e].fights # <<>>

NotWritten == [written |-> FALSE, rows |-> <<>>]
Written(rows) == [written |-> TRUE, rows |-> rows]

\* to_csv(filename): the file is written unless there is no fight at all
\* ("No data to write.").
ToCsv(evs, file) == IF HasRows(evs) THEN Written(Rows(evs)) ELSE file

\* to_sql(**db_config): everything is inserted and committed at the end;
\* a database error leaves the database as it was.
ToSql(evs, db, ok) == IF ok THEN Written(Rows(evs)) ELSE db

SinksIdle ==
    /\ sql = NotWritten
    /\ csv = NotWritten
    /\ interrupted = FALSE

PlInit ==
    /\ pl_pc = "setup"
    /\ events = <<>>
    /\ ev = 0
    /\ fight_links = <<>>
    /\ fight_soups = <<>>
    /\ li = 0
    /\ fight = NoFight
    /\ visited = {}
    /\ escaped = FALSE

PipeIdle ==
    /\ pl_pc = "finished"
    /\ events = <<>>
    /\ ev = 0
    /\ fight_links = <<>>
    /\ fight_soups = <<>>
    /\ li = 0
    /\ fight = NoFight
    /\ visited = {}
    /\ escaped = FALSE

\* What the statements of main before create_events can do: pass, raise
\* ValueError (credentials not set) or raise mysql.connector.Error.
SetupOutcomes == {"ok", "ValueError", "mysql.connector.Error"}

\* main, from `events_manager = Events()` to get_latest_event_date(): an
\* exception goes to its except clause and then to the finally block.
PlSetup(outcome) ==
    /\ pl_pc = "setup"
    /\ IF outcome = "ok"
       THEN pl_pc' = "create_events" /\ UNCHANGED csv
       ELSE pl_pc' = "finished" /\ csv' = ToCsv(events, csv)
    /\ UNCHANGED <<sql, interrupted>>
    /\ UNCHANGED <<events, ev, fight_links, fight_soups, li, fight, visited, escaped>>
    /\ UNCHANGED cacheVars

\* if not events_manager.events: print("No new events found."); return
NoNewEvents(evs) == evs = <<>>

\* main after create_events returned: the early return (through the
\* finally block), or on to the loop over the events.
PlCheckEvents ==
    /\ pl_pc = "create_events"
    /\ ce_pc = "returned"
    /\ IF NoNewEvents(events)
       THEN pl_pc' = "finished" /\ csv' = ToCsv(events, csv)
       ELSE pl_pc' = "main" /\ UNCHANGED csv
    /\ UNCHANGED <<sql, interrupted>>
    /\ UNCHANGED <<events, ev, fight_links, fight_soups, li, fight, visited, escaped>>
    /\ UNCHANGED cacheVars

\* main: `for i, event in enumerate(events_manager.events, 1)` takes the
\* next Event and calls event.create_fights().
PlNextEvent ==
    /\ pl_pc = "main"
    /\ ev < Len(events)
    /\ ev' = ev + 1
    /\ pl_pc' = "links"
    /\ UNCHANGED <<events, fight_links, fight_soups, li, fight, visited, escaped>>
    /\ UNCHANGED cacheVars

PlFinish_CsvOnSuccess(db_ok) ==
    /\ pl_pc = "main"
    /\ ev = Len(events)
    /\ sql' = ToSql(events, sql, db_ok)
    /\ csv' = IF db_ok THEN ToCsv(events, csv) ELSE csv
    /\ pl_pc' = "finished"
    /\ UNCHANGED interrupted
    /\ UNCHANGED <<events, ev, fight_links, fight_soups, li, fight, visited, escaped>>
    /\ UNCHANGED cacheVars

\* main: the loop over the events is exhausted: events_manager.to_sql()
\* (with db_ok false it raises, and `except mysql.connector.Error` or
\* `except Exception` takes what it raised), then the finally block
\* writes the CSV.
PlFinish(db_ok) ==
    /\ pl_pc = "main"
    /\ ev = Len(events)
    /\ sql' = ToSql(events, sql, db_ok)
    /\ csv' = ToCsv(events, csv)
    /\ pl_pc' = "finished"
    /\ UNCHANGED interrupted
    /\ UNCHANGED <<events, ev, fight_links, fight_soups, li, fight, visited, escaped>>
    /\ UNCHANGED cacheVars

\* A KeyboardInterrupt is raised in the main thread, wherever it is inside
\* the try block: it is no Exception, so no except clause of main (and none
\* on the way up) takes it; the finally block writes the CSV and the
\* interrupt leaves main.
PlInterrupt ==
    /\ pl_pc # "finished"
    /\ interrupted' = TRUE
    /\ csv' = ToCsv(events, csv)
    /\ pl_pc' = "finished"
    /\ UNCHANGED sql
    /\ UNCHANGED <<events, ev, fight_links, fight_soups, li, fight, visited, escaped>>
    /\ UNCHANGED cacheVars

\* create_fights: parse_fight_links() fetches the event page and returns
\* the n fight links found on it ([] when the fetch failed); without links
\* create_fights returns.
PlParseFightLinks(ok, n) ==
    /\ pl_pc = "links"
    /\ fight_links' = IF ok THEN [k \in 1..n |-> <<ev, k>>] ELSE <<>>
    /\ pl_pc' = IF fight_links' = <<>> THEN "main" ELSE "fetch"
    /\ UNCHANGED <<events, ev, fight_soups, li, fight, visited, escaped>>
    /\ UNCHANGED cacheVars

\* create_fights: fight_soups = fetch_parallel(fight_links); every link
\* gets an entry, a soup or None.
PlFetchFights(soups) ==
    /\ pl_pc = "fetch"
    /\ DOMAIN soups = Range(fight_links)
    /\ fight_soups' = soups
    /\ li' = 1
    /\ pl_pc' = "fights"
    /\ UNCHANGED <<events, ev, fight_links, fight, visited, escaped>>
    /\ UNCHANGED cacheVars

\* create_fights: a pass of `for link in fight_links` whose link has no
\* soup: "Skipping fight", continue.
PlSkipFight ==
    /\ pl_pc = "fights"
    /\ li <= Len(fight_links)
    /\ ~fight_soups[fight_links[li]]
    /\ visited' = visited \cup {fight_links[li]}
    /\ li' = li + 1
    /\ UNCHANGED <<pl_pc, events, ev, fight_links, fight_soups, fight, escaped>>
    /\ UNCHANGED cacheVars

PlExcept_Requeued(raised) ==
    /\ visited' = visited \cup {fight_links[li]}
    /\ li' = li
    /\ pl_pc' = "fights"
    /\ fight' = NoFight
    /\ UNCHANGED <<events, escaped>>

\* `except Exception as e: print(...)` around the loop body: the Fight
\* under construction is dropped and the loop goes to the next link.
PlExcept(raised) ==
    IF Caught(raised)
    THEN /\ visited' = visited \cup {fight_links[li]}
         /\ li' = li + 1
         /\ pl_pc' = "fights"
         /\ fight' = NoFight
         /\ UNCHANGED <<events, escaped>>
    ELSE /\ escaped' = TRUE
         /\ pl_pc' = "finished"
         /\ fight' = NoFight
         /\ UNCHANGED <<events, li, visited>>

\* self.fights.append(fight): the constructor returned.
PlAppend(new) ==
    /\ events' = [events EXCEPT ![ev].fights = Append(@, new)]
    /\ visited' = visited \cup {fight_links[li]}
    /\ li' = li + 1
    /\ pl_pc' = "fights"
    /\ fight' = NoFight
    /\ UNCHANGED escaped

\* create_fights: Fight(link, soup) starts; parse_fighters selects the
\* anchors, raises unless there are two, and prefetches both fighter pages
\* with fetch_parallel(fighter_links, max_workers=2).
PlParseFighters(anchors) ==
    /\ pl_pc = "fights"
    /\ li <= Len(fight_links)
    /\ fight_soups[fight_links[li]]
    /\ IF Len(anchors) # 2
       THEN /\ PlExcept("ValueError")
            /\ UNCHANGED fetched
       ELSE /\ fight' = [NoFight EXCEPT !.link = fight_links[li], !.fighter_links = anchors]
            /\ fetched' = Bump(Bump(fetched, anchors[1]), anchors[2])
            /\ pl_pc' = "fighter_a"
            /\ UNCHANGED <<events, li, visited, escaped>>
    /\ UNCHANGED <<ev, fight_links, fight_soups>>
    /\ UNCHANGED <<FIGHTER_CACHE, CACHE_LOCK, heap, th, inserts, resolved>>

\* parse_fighters: self.fighter_a = Fighter(fighter_links[0], soup), then
\* the same for fighter_b. pre is what the prefetch got for the link, got
\* what the Fighter's own fetch gets when the prefetch got None.
PlFighter(pre, got) ==
    /\ pl_pc \in {"fighter_a", "fighter_b"}
    /\ LET link == fight.fighter_links[IF pl_pc = "fighter_a" THEN 1 ELSE 2]
           out == FighterInit(RunState, link, pre, got)
       IN  /\ FIGHTER_CACHE' = out.cache
           /\ heap' = out.heap
           /\ fetched' = out.fetched
           /\ inserts' = out.inserts
           /\ resolved' = out.resolved
           /\ IF out.raised # ""
              THEN PlExcept(out.raised)
              ELSE /\ fight' = IF pl_pc = "fighter_a"
                                THEN [fight EXCEPT !.fighter_a = Len(out.heap)]
                                ELSE [fight EXCEPT !.fighter_b = Len(out.heap)]
                   /\ pl_pc' = IF pl_pc = "fighter_a" THEN "fighter_b" ELSE "details"
                   /\ UNCHANGED <<events, li, visited, escaped>>
    /\ UNCHANGED <<ev, fight_links, fight_soups, CACHE_LOCK, th>>

\* create_fight after parse_fighters: the missing-fighter return, then the
\* details of the page; round_of_victory is what parse_round_of_victory
\* makes of the ROUND detail (None when it is missing or not a number).
PlParseDetails(round_of_victory_) ==
    /\ pl_pc = "details"
    /\ IF FightersMissing(heap, fight.fighter_a, fight.fighter_b)
       THEN PlAppend(fight)
       ELSE /\ fight' = [fight EXCEPT !.round_of_victory = round_of_victory_]
            /\ pl_pc' = "create_rounds"
            /\ UNCHANGED <<events, li, visited, escaped>>
    /\ UNCHANGED <<ev, fight_links, fight_soups>>
    /\ UNCHANGED cacheVars

\* create_fight: self.create_rounds(self.round_of_victory, soup, links);
\* then create_fights appends the Fight.
PlCreateRounds(layout) ==
    /\ pl_pc = "create_rounds"
    /\ LET made == CreateRounds(fight.round_of_victory, layout, fight.fighter_links)
       IN  IF made.raised # ""
           THEN PlExcept(made.raised)
           ELSE PlAppend([fight EXCEPT !.rounds = made.rounds])
    /\ UNCHANGED <<ev, fight_links, fight_soups>>
    /\ UNCHANGED cacheVars

\* create_fights: the loop over fight_links is exhausted; back in main.
PlFightsDone ==
    /\ pl_pc = "fights"
    /\ li > Len(fight_links)
    /\ pl_pc' = "main"
    /\ UNCHANGED <<events, ev, fight_links, fight_soups, li, fight, visited, escaped>>
    /\ UNCHANGED cacheVars

(***************************************************************************)
(* Events.create_events                                                    *)
(***************************************************************************)
MaxRows == 4

\* Dates, as day numbers: D1 < D2 < D3.
Dates == {SomeInt(1), SomeInt(2), SomeInt(3)}

\* A <tr> of the table body by its CSS classes and by what
\* parse_event_date makes of it (None when the span is missing or does not
\* parse). "first" stands for b-statistics__table-row_type_first, "row" for
\* b-statistics__table-row.
TableRows ==
    {[classes |-> {}, date |-> NoneInt],
     [classes |-> {"first"}, date |-> NoneInt],
     [classes |-> {"first", "row"}, date |-> NoneInt]}
    \cup [classes : {{"row"}}, date : Dates \cup {NoneInt}]

\* get_page_content returned None for the events page.
IndexNotFetched == <<[classes |-> {"no page"}, date |-> NoneInt]>>

\* The page has no table of class b-statistics__table-events.
TableMissing == <<[classes |-> {"no table"}, date |-> NoneInt]>>

\* The table has no <tbody>.
TbodyMissing == <<[classes |-> {"no tbody"}, date |-> NoneInt]>>

NoListing == {IndexNotFetched, TableMissing, TbodyMissing}

Listings == SeqsUpTo(TableRows, MaxRows) \cup NoListing

\* tbody.find('tr', class_='b-statistics__table-row_type_first'): the
\* position of the first marker row, 0 when there is none.
FutureEvent(rows) ==
    LET marked == {k \in DOMAIN rows : "first" \in rows[k].classes}
    IN  IF marked = {} THEN 0 ELSE CHOOSE k \in marked : \A j \in marked : k <= j

FutureEventMissing_Ignored(rows) == FALSE

\* if not future_event: return
FutureEventMissing(rows) == FutureEvent(rows) = 0

\* The positions in s, ascending, as a list.
RECURSIVE Ascending(_)
Ascending(s) ==
    IF s = {} THEN <<>>
    ELSE LET k == CHOOSE x \in s : \A y \in s : x <= y
         IN  <<k>> \o Ascending(s \ {k})

\* future_event.find_next_siblings('tr', class_='b-statistics__table-row')
FindNextSiblings(rows, marker) ==
    Ascending({k \in DOMAIN rows : k > marker /\ "row" \in rows[k].classes})

\* if start_date and event_date and event_date <= start_date: break
CutoffReached_UndatedStops(start, event_date) ==
    start # NoneInt /\ (event_date = NoneInt \/ event_date[1] <= start[1])

CutoffReached_Strict(start, event_date) ==
    start # NoneInt /\ event_date # NoneInt /\ event_date[1] < start[1]

CutoffReached(start, event_date) ==
    start # NoneInt /\ event_date # NoneInt /\ event_date[1] <= start[1]

\* create_event(row): the Event stub; its link stands for the row it is from.
CreateEvent(k, row) == [link |-> k, date |-> row.date, fights |-> <<>>]

ListIdle ==
    /\ ce_pc = "idle"
    /\ tbody = <<>>
    /\ start_date = NoneInt
    /\ event_rows = <<>>
    /\ ce_i = 0

\* create_events(start_date) up to the loop: the page is fetched, the
\* table, its body and the marker row are located; any of them missing
\* makes it return with self.events untouched.
CeCall(page, cutoff) ==
    /\ ce_pc = "idle"
    /\ events = <<>>
    /\ tbody' = page
    /\ start_date' = cutoff
    /\ IF page \in NoListing \/ FutureEventMissing(page)
       THEN /\ ce_pc' = "returned"
            /\ UNCHANGED <<event_rows, ce_i>>
       ELSE /\ event_rows' = FindNextSiblings(page, FutureEvent(page))
            /\ ce_i' = 1
            /\ ce_pc' = "rows"
    /\ UNCHANGED pipeVars

\* One pass of the loop: break at a row on or before the cutoff, otherwise
\* append the row's Event.
CeRow ==
    /\ ce_pc = "rows"
    /\ ce_i <= Len(event_rows)
    /\ LET k == event_rows[ce_i]
       IN  IF CutoffReached(start_date, tbody[k].date)
           THEN /\ ce_pc' = "returned"
                /\ UNCHANGED <<ce_i, events>>
           ELSE /\ events' = Append(events, CreateEvent(k, tbody[k]))
                /\ ce_i' = ce_i + 1
                /\ UNCHANGED ce_pc
    /\ UNCHANGED <<tbody, start_date, event_rows>>
    /\ UNCHANGED <<pl_pc, ev, fight_links, fight_soups, li, fight, visited, escaped>>

\* The rows are exhausted.
CeReturn ==
    /\ ce_pc = "rows"
    /\ ce_i > Len(event_rows)
    /\ ce_pc' = "returned"
    /\ UNCHANGED <<tbody, start_date, event_rows, ce_i>>
    /\ UNCHANGED pipeVars

\* The events pages and cutoff dates of the whole run: the page not
\* fetched, without table, without body, with a row but no marker row, and
\* with the marker row followed by two event rows.
RunListings ==
    NoListing \cup
    {<<[classes |-> {"row"}, date |-> SomeInt(2)]>>,
     <<[classes |-> {"first", "row"}, date |-> NoneInt],
       [classes |-> {"row"}, date |-> SomeInt(3)],
       [classes |-> {"row"}, date |-> SomeInt(2)]>>}

\* latest_date = get_latest_event_date(): None for an empty database.
RunCutoffs == {NoneInt, SomeInt(2)}

(***************************************************************************)
(* RoundStats: the landed/attempted counters                               *)
(***************************************************************************)
\* What get_text(td) can return for a cell: "X of Y" texts, the site's
\* placeholder, and "" when the cell has no <p> for the position.
StatTexts == {"2 of 5", "0 of 0", "---", ""}

\* The cells read by parse_total_stats (rows[2], rows[4], rows[5]) and by
\* parse_sig_strikes_stats (rows[3] .. rows[8]).
TotalsCells == {"sig", "total", "takedowns"}
SigCells == {"head", "body", "leg", "distance", "clinch", "ground"}

\* Python's None where a row is expected.
NoCells == <<>>

\* RoundStats.split_x_of_y: re.match(r'(\d+)\s*of\s*(\d+)'), else (-1, -1)
SplitXOfY(stat_string) ==
    CASE stat_string = "2 of 5" -> <<2, 5>>
      [] stat_string = "0 of 0" -> <<0, 0>>
      [] OTHER -> <<-1, -1>>

\* self.x_landed, self.x_attempted = self.split_x_of_y(...)
StoreSplit(xy) == [landed |-> SomeInt(xy[1]), attempted |-> SomeInt(xy[2])]

\* The dataclass default of a landed/attempted pair.
Unknown == [landed |-> NoneInt, attempted |-> NoneInt]

\* if sig_landed >= 0 and total_landed >= 0: non_sig = total - sig
NonSigStrikes(sig, total) ==
    IF sig[1] >= 0 /\ total[1] >= 0
    THEN [landed |-> SomeInt(total[1] - sig[1]), attempted |-> SomeInt(total[2] - sig[2])]
    ELSE Unknown

\* create_roundstats: each parse runs only when its row is there.
CreateRoundStats(totals, sig) ==
    [non_sig_strikes |->
        IF totals = NoCells THEN Unknown
        ELSE NonSigStrikes(SplitXOfY(totals["sig"]), SplitXOfY(totals["total"])),
     takedowns |->
        IF totals = NoCells THEN Unknown ELSE StoreSplit(SplitXOfY(totals["takedowns"]))]
    @@ [c \in SigCells |->
        IF sig = NoCells THEN Unknown ELSE StoreSplit(SplitXOfY(sig[c]))]

NoStats == [c \in {"non_sig_strikes", "takedowns"} \cup SigCells |-> Unknown]

StInit ==
    /\ st_pc = "call"
    /\ totals_cells \in [TotalsCells -> StatTexts] \cup {NoCells}
    /\ sig_cells \in [SigCells -> StatTexts] \cup {NoCells}
    /\ stats = NoStats

StatIdle ==
    /\ st_pc = "done"
    /\ totals_cells = NoCells
    /\ sig_cells = NoCells
    /\ stats = NoStats

\* RoundStats(totals_tr, sig_strikes_tr, position)
StCreate ==
    /\ st_pc = "call"
    /\ stats' = CreateRoundStats(totals_cells, sig_cells)
    /\ st_pc' = "done"
    /\ UNCHANGED <<totals_cells, sig_cells>>

(***************************************************************************)
(* Fight.parse_weight_class, Fight.map_weight_class                        *)
(***************************************************************************)
MaxLabelWords == 4

\* Texts are sequences of characters.
UpperCase == <<"A", "B", "C", "D", "E", "F", "G", "H", "I", "J", "K", "L", "M", "N", "O", "P", "Q", "R", "S", "T", "U", "V", "W", "X", "Y", "Z">>
LowerCase == <<"a", "b", "c", "d", "e", "f", "g", "h", "i", "j", "k", "l", "m", "n", "o", "p", "q", "r", "s", "t", "u", "v", "w", "x", "y", "z">>

\* str.lower(), character by character.
ToLower(c) ==
    IF \E i \in DOMAIN UpperCase : UpperCase[i] = c
    THEN LowerCase[CHOOSE i \in DOMAIN UpperCase : UpperCase[i] = c]
    ELSE c

Lower(text) == [i \in DOMAIN text |-> ToLower(text[i])]

\* key in text
Occurs(key, text) ==
    \E i \in 1..(Len(text) - Len(key) + 1) : SubSeq(text, i, i + Len(key) - 1) = key

mapping_LightFirst ==
    <<[key |-> <<"c", "a", "t", "c", "h">>, limit |-> 0],
      [key |-> <<"l", "i", "g", "h", "t">>, limit |-> 155],
      [key |-> <<"s", "t", "r", "a", "w">>, limit |-> 115],
      [key |-> <<"f", "l", "y">>, limit |-> 125],
      [key |-> <<"b", "a", "n", "t", "a", "m">>, limit |-> 135],
      [key |-> <<"f", "e", "a", "t", "h", "e", "r">>, limit |-> 145],
      [key |-> <<"l", "i", "g", "h", "t", " ", "h", "e", "a", "v", "y">>, limit |-> 205],
      [key |-> <<"w", "e", "l", "t", "e", "r">>, limit |-> 170],
      [key |-> <<"m", "i", "d", "d", "l", "e">>, limit |-> 185],
      [key |-> <<"h", "e", "a", "v", "y">>, limit |-> 265]>>

\* mapping: the ordered patterns, more specific ones first.
mapping ==
    <<[key |-> <<"c", "a", "t", "c", "h">>, limit |-> 0],
      [key |-> <<"l", "i", "g", "h", "t", " ", "h", "e", "a", "v", "y">>, limit |-> 205],
      [key |-> <<"s", "t", "r", "a", "w">>, limit |-> 115],
      [key |-> <<"f", "l", "y">>, limit |-> 125],
      [key |-> <<"b", "a", "n", "t", "a", "m">>, limit |-> 135],
      [key |-> <<"f", "e", "a", "t", "h", "e", "r">>, limit |-> 145],
      [key |-> <<"l", "i", "g", "h", "t">>, limit |-> 155],
      [key |-> <<"w", "e", "l", "t", "e", "r">>, limit |-> 170],
      [key |-> <<"m", "i", "d", "d", "l", "e">>, limit |-> 185],
      [key |-> <<"h", "e", "a", "v", "y">>, limit |-> 265]>>

\* next((limit for key, limit in mapping if key in weight_class_tag), None)
map_weight_class(weight_class_tag) ==
    LET tag == Lower(weight_class_tag)
        hits == {i \in DOMAIN mapping : Occurs(mapping[i].key, tag)}
    IN  IF hits = {} THEN NoneInt
        ELSE SomeInt(mapping[CHOOSE i \in hits : \A k \in hits : i <= k].limit)

\* 'women' in weight_class_tag.lower()
is_womens_fight(weight_class_tag) == Occurs(<<"w", "o", "m", "e", "n">>, Lower(weight_class_tag))

\* 'title' in weight_class_tag.lower()
is_title_fight(weight_class_tag) == Occurs(<<"t", "i", "t", "l", "e">>, Lower(weight_class_tag))

\* The words the text of i.b-fight-details__fight-title is made of here.
LabelWords ==
    {<<"L", "i", "g", "h", "t">>,
     <<"H", "e", "a", "v", "y", "w", "e", "i", "g", "h", "t">>,
     <<"L", "i", "g", "h", "t", "w", "e", "i", "g", "h", "t">>,
     <<"C", "a", "t", "c", "h">>,
     <<"T", "i", "t", "l", "e">>,
     <<"B", "o", "u", "t">>,
     <<"W", "O", "M", "E", "N", "'", "S">>}

RECURSIVE JoinWords(_)
JoinWords(ws) ==
    IF Len(ws) = 0 THEN <<>>
    ELSE IF Len(ws) = 1 THEN ws[1]
    ELSE ws[1] \o <<" ">> \o JoinWords(Tail(ws))

\* The label texts; the empty text stands for a page without the element
\* as well (weight_class_str None): both are falsy.
Labels == {JoinWords(ws) : ws \in SeqsUpTo(LabelWords, MaxLabelWords)}

\* The fields of a Fight that parse_weight_class sets, as __init__ left them.
NoWeight == [weight_class |-> NoneInt, gender |-> "M", title_fight |-> FALSE]

\* parse_weight_class(fight_page_soup)
ParseWeightClass(weight_class_str_) ==
    [weight_class |-> IF weight_class_str_ # <<>>
                      THEN map_weight_class(weight_class_str_) ELSE NoneInt,
     gender |-> IF weight_class_str_ # <<>> /\ is_womens_fight(weight_class_str_)
                THEN "F" ELSE "M",
     title_fight |-> weight_class_str_ # <<>> /\ is_title_fight(weight_class_str_)]

WcInit ==
    /\ wc_pc = "call"
    /\ weight_class_str \in Labels
    /\ weighed = NoWeight

WeightIdle ==
    /\ wc_pc = "done"
    /\ weight_class_str = <<>>
    /\ weighed = NoWeight

WcParse ==
    /\ wc_pc = "call"
    /\ weighed' = ParseWeightClass(weight_class_str)
    /\ wc_pc' = "done"
    /\ UNCHANGED weight_class_str

(***************************************************************************)
(* Events.to_csv: the flattened row of a fight                             *)
(***************************************************************************)
MaxFightRounds == 5

\* for rnd in range(5)
ExportRounds == 5

round_stat_fields ==
    <<"knockdowns", "non_sig_strikes_landed", "non_sig_strikes_attempted",
      "takedowns_landed", "takedowns_attempted", "submission_attempts",
      "reversals", "control_time_seconds", "head_strikes_landed",
      "head_strikes_attempted", "body_strikes_landed", "body_strikes_attempted",
      "leg_strikes_landed", "leg_strikes_attempted", "distance_strikes_landed",
      "distance_strikes_attempted", "clinch_strikes_landed", "clinch_strikes_attempted",
      "ground_strikes_landed", "ground_strikes_attempted">>

\* A RoundStats object by its exported attributes: the one of the fighter
\* given by tag in the round numbered n, and one with every attribute None
\* (neither table row was found).
StatsOf(tag, n) ==
    [f \in Range(round_stat_fields) |->
        SomeInt(1000 * tag + 100 * n
                  + (CHOOSE i \in DOMAIN round_stat_fields : round_stat_fields[i] = f))]

EmptyStats == [f \in Range(round_stat_fields) |-> NoneInt]

\* stats_a, stats_b = None: the fight has no such round.
NoRoundStats == [none |-> TRUE]

\* fight.rounds of a retained fight: n rounds, numbered 1..n; has[k] tells
\* for which sides of round k the statistics rows were found.
RoundsOfLen(n) ==
    {[k \in 1..n |->
        [round_number |-> k,
         fighter_a_roundstats |-> IF has[k][1] THEN StatsOf(1, k) ELSE EmptyStats,
         fighter_b_roundstats |-> IF has[k][2] THEN StatsOf(2, k) ELSE EmptyStats]] :
     has \in [1..n -> BOOLEAN \X BOOLEAN]}

ExportFights ==
    UNION {[round_of_victory : {SomeInt(n)}, rounds : RoundsOfLen(n)] : n \in 0..MaxFightRounds}

\* getattr(stats, field, None)
GetAttr(stats_, field) == IF stats_ = NoRoundStats THEN NoneInt ELSE stats_[field]

StatsAt_LastRepeated(rounds, rnd, side) ==
    IF rounds = <<>> THEN NoRoundStats
    ELSE IF rnd < Len(rounds) THEN rounds[rnd + 1][side] ELSE rounds[Len(rounds)][side]

\* fight.rounds[rnd].fighter_x_roundstats if rnd < len(fight.rounds) else None
StatsAt(rounds, rnd, side) ==
    IF rnd < Len(rounds) THEN rounds[rnd + 1][side] ELSE NoRoundStats

\* The column f"round_{rnd+1}_fighter_{x}_{field}".
Column(rnd, x, field) == <<rnd + 1, x, field>>

\* The round columns to_csv adds to base_row for one fight.
RoundColumns(fight_) ==
    [c \in {Column(rnd, x, f) : rnd \in 0..(ExportRounds - 1), x \in {"a", "b"},
                                f \in Range(round_stat_fields)} |->
        GetAttr(StatsAt(fight_.rounds, c[1] - 1,
                        IF c[2] = "a" THEN "fighter_a_roundstats" ELSE "fighter_b_roundstats"),
                c[3])]

NoRow == [round_of_victory |-> NoneInt, columns |-> <<>>]

ExInit ==
    /\ ex_pc = "call"
    /\ ex_fight \in ExportFights
    /\ base_row = NoRow

ExportIdle ==
    /\ ex_pc = "done"
    /\ ex_fight = [round_of_victory |-> SomeInt(0), rounds |-> <<>>]
    /\ base_row = NoRow

\* One pass of `for fight in event.fights`: the row of the fight.
ExRow ==
    /\ ex_pc = "call"
    /\ base_row' = [round_of_victory |-> ex_fight.round_of_victory,
                    columns |-> RoundColumns(ex_fight)]
    /\ ex_pc' = "done"
    /\ UNCHANGED ex_fight

(***************************************************************************)
(* The thread pools of a run: main, Event.create_fights,                   *)
(* Fight.parse_fighters and fetch_parallel                                 *)
(***************************************************************************)
MaxRunEvents == 2
MaxBatch == 11

\* def fetch_parallel(urls, max_workers: int = 10)
DefaultWorkers == 10

\* fetch_parallel(fighter_links, max_workers=2)
FighterWorkers == 2

\* What executor.submit hands to the pool's threads.
WorkItem_Fighter == "Fighter"

WorkItem == "get_page_content"

\* with ThreadPoolExecutor(max_workers=width) and the submit comprehension
\* over n URLs: n work items, none taken up yet.
NewPool(kind, width, n) == [kind |-> kind, width |-> width, queued |-> n, running |-> 0]

\* The as_completed loop is exhausted and the with block is left
\* (shutdown waits for the threads): no work item is queued or running.
BatchOver_AllStarted(pool) == pool.queued = 0

BatchOver(pool) == pool.queued = 0 /\ pool.running = 0

\* The executors that still have a work item.
Busy(ps) == SelectSeq(ps, LAMBDA pool : pool.queued + pool.running > 0)

RnInit ==
    /\ rn_pc = "main"
    /\ rn_ev = 0
    /\ rn_links = 0
    /\ rn_li = 0
    /\ pools = <<>>
    /\ own_request = FALSE
    /\ constructing = FALSE

PoolsIdle ==
    /\ rn_pc = "finished"
    /\ rn_ev = 0
    /\ rn_links = 0
    /\ rn_li = 0
    /\ pools = <<>>
    /\ own_request = FALSE
    /\ constructing = FALSE

\* main: the loop takes the next event; create_fights calls
\* parse_fight_links, which calls get_page_content(self.link).
RnNextEvent ==
    /\ rn_pc = "main"
    /\ rn_ev < MaxRunEvents
    /\ rn_ev' = rn_ev + 1
    /\ own_request' = TRUE
    /\ rn_pc' = "event_page"
    /\ UNCHANGED <<rn_links, rn_li, pools, constructing>>

\* main: the loop over the events is exhausted.
RnFinish ==
    /\ rn_pc = "main"
    /\ rn_pc' = "finished"
    /\ UNCHANGED <<rn_ev, rn_links, rn_li, pools, own_request, constructing>>

\* parse_fight_links returns n links; without links create_fights returns,
\* otherwise it calls fetch_parallel(fight_links).
RnFightLinks(n) ==
    /\ rn_pc = "event_page"
    /\ own_request' = FALSE
    /\ rn_links' = n
    /\ rn_li' = 1
    /\ IF n = 0
       THEN rn_pc' = "main" /\ UNCHANGED pools
       ELSE /\ rn_pc' = "fight_batch"
            /\ pools' = Append(pools, NewPool("fights", DefaultWorkers, n))
    /\ UNCHANGED <<rn_ev, constructing>>

\* A thread of executor p takes a queued work item and calls it.
PoolStart(p) ==
    /\ p \in DOMAIN pools
    /\ pools[p].queued > 0
    /\ pools[p].running < pools[p].width
    /\ pools' = [pools EXCEPT ![p].queued = @ - 1, ![p].running = @ + 1]
    /\ UNCHANGED <<rn_pc, rn_ev, rn_links, rn_li, own_request, constructing>>

\* The call of a work item ends.
PoolFinish(p) ==
    /\ p \in DOMAIN pools
    /\ pools[p].running > 0
    /\ pools' = [pools EXCEPT ![p].running = @ - 1]
    /\ UNCHANGED <<rn_pc, rn_ev, rn_links, rn_li, own_request, constructing>>

\* fetch_parallel returns to create_fights (the loop over the links
\* starts) or to parse_fighters (Fighter(fighter_links[0], ...) is next).
RnBatchReturn ==
    /\ rn_pc \in {"fight_batch", "fighter_batch"}
    /\ BatchOver(pools[Len(pools)])
    /\ pools' = Busy(pools)
    /\ rn_pc' = IF rn_pc = "fight_batch" THEN "fights" ELSE "fighter_a"
    /\ UNCHANGED <<rn_ev, rn_links, rn_li, own_request, constructing>>

\* A pass of `for link in fight_links` that builds no Fighter: the link
\* has no soup, or the page does not have two fighter anchors.
RnSkipLink ==
    /\ rn_pc = "fights"
    /\ rn_li <= rn_links
    /\ rn_li' = rn_li + 1
    /\ UNCHANGED <<rn_pc, rn_ev, rn_links, pools, own_request, constructing>>

\* Fight(link, soup) reaches parse_fighters, which calls
\* fetch_parallel(fighter_links, max_workers=2).
RnParseFighters ==
    /\ rn_pc = "fights"
    /\ rn_li <= rn_links
    /\ pools' = Append(pools, NewPool("fighters", FighterWorkers, 2))
    /\ rn_pc' = "fighter_batch"
    /\ UNCHANGED <<rn_ev, rn_links, rn_li, own_request, constructing>>

\* parse_fighters calls Fighter(link, soup); with fetch true the link is
\* not cached and no soup was passed, so create_fighter calls
\* get_page_content itself.
RnFighterCall(fetch) ==
    /\ rn_pc \in {"fighter_a", "fighter_b"}
    /\ ~constructing
    /\ constructing' = TRUE
    /\ own_request' = fetch
    /\ UNCHANGED <<rn_pc, rn_ev, rn_links, rn_li, pools>>

\* Fighter.__init__ returns; after the second one the Fight is completed
\* (no request is made for that) and the loop goes to the next link.
RnFighterReturn ==
    /\ rn_pc \in {"fighter_a", "fighter_b"}
    /\ constructing
    /\ constructing' = FALSE
    /\ own_request' = FALSE
    /\ IF rn_pc = "fighter_a"
       THEN rn_pc' = "fighter_b" /\ UNCHANGED rn_li
       ELSE rn_pc' = "fights" /\ rn_li' = rn_li + 1
    /\ UNCHANGED <<rn_ev, rn_links, pools>>

\* The loop over the links is exhausted: create_fights returns to main.
RnFightsDone ==
    /\ rn_pc = "fights"
    /\ rn_li > rn_links
    /\ rn_pc' = "main"
    /\ UNCHANGED <<rn_ev, rn_links, rn_li, pools, own_request, constructing>>

(***************************************************************************)
(* Specifications                                                          *)
(***************************************************************************)
GpcNext ==
    \/ \E o \in AttemptOutcomes, j \in JitterTenths : GpcTry(o, j) /\ UNCHANGED <<sinkVars, listVars, statVars, poolVars, exportVars, weightVars, batchVars, roundVars, cacheVars, pipeVars>>
    \/ GpcBackoff /\ UNCHANGED <<sinkVars, listVars, statVars, poolVars, exportVars, weightVars, batchVars, roundVars, cacheVars, pipeVars>>

InitFetch == WeightIdle /\ ExportIdle /\ PoolsIdle /\ StatIdle /\ ListIdle /\ GpcInit /\ BatchIdle /\ RoundIdle /\ CacheIdle /\ PipeIdle /\ SinksIdle

SpecFetch == InitFetch /\ [][GpcNext]_vars

FpNext ==
    \/ FpSubmit /\ UNCHANGED <<sinkVars, listVars, statVars, poolVars, exportVars, weightVars, fetchVars, roundVars, cacheVars, pipeVars>>
    \/ FpSubmitted /\ UNCHANGED <<sinkVars, listVars, statVars, poolVars, exportVars, weightVars, fetchVars, roundVars, cacheVars, pipeVars>>
    \/ \E i \in DOMAIN futures : WorkerStart(i) /\ UNCHANGED <<sinkVars, listVars, statVars, poolVars, exportVars, weightVars, fetchVars, roundVars, cacheVars, pipeVars>>
    \/ \E i \in DOMAIN futures, out \in {"soup", "none", "raise"} :
          WorkerFinish(i, out) /\ UNCHANGED <<sinkVars, listVars, statVars, poolVars, exportVars, weightVars, fetchVars, roundVars, cacheVars, pipeVars>>
    \/ \E i \in DOMAIN futures : FpCollect(i) /\ UNCHANGED <<sinkVars, listVars, statVars, poolVars, exportVars, weightVars, fetchVars, roundVars, cacheVars, pipeVars>>
    \/ FpReturn /\ UNCHANGED <<sinkVars, listVars, statVars, poolVars, exportVars, weightVars, fetchVars, roundVars, cacheVars, pipeVars>>

InitBatch == WeightIdle /\ ExportIdle /\ PoolsIdle /\ StatIdle /\ ListIdle /\ GpcIdle /\ FpInit /\ RoundIdle /\ CacheIdle /\ PipeIdle /\ SinksIdle

SpecBatch == InitBatch /\ [][FpNext]_vars

RdNext == RdCreate /\ UNCHANGED <<sinkVars, listVars, statVars, poolVars, exportVars, weightVars, fetchVars, batchVars, cacheVars, pipeVars>>

InitRound == WeightIdle /\ ExportIdle /\ PoolsIdle /\ StatIdle /\ ListIdle /\ GpcIdle /\ BatchIdle /\ RdInit /\ CacheIdle /\ PipeIdle /\ SinksIdle

SpecRound == InitRound /\ [][RdNext]_vars

FiNext ==
    \/ \E t \in Resolvers, link \in CacheLinks, has_soup \in BOOLEAN :
          FiCall(t, link, has_soup) /\ UNCHANGED <<sinkVars, listVars, statVars, poolVars, exportVars, weightVars, fetchVars, batchVars, roundVars, pipeVars>>
    \/ \E t \in Resolvers : FiAcquire(t) /\ UNCHANGED <<sinkVars, listVars, statVars, poolVars, exportVars, weightVars, fetchVars, batchVars, roundVars, pipeVars>>
    \/ \E t \in Resolvers : FiCheck(t) /\ UNCHANGED <<sinkVars, listVars, statVars, poolVars, exportVars, weightVars, fetchVars, batchVars, roundVars, pipeVars>>
    \/ \E t \in Resolvers, page \in FighterPages \cup {NoPage} :
          FiCreate(t, page) /\ UNCHANGED <<sinkVars, listVars, statVars, poolVars, exportVars, weightVars, fetchVars, batchVars, roundVars, pipeVars>>
    \/ \E t \in Resolvers : FiInsert(t) /\ UNCHANGED <<sinkVars, listVars, statVars, poolVars, exportVars, weightVars, fetchVars, batchVars, roundVars, pipeVars>>
    \/ \E id \in DOMAIN heap :
          FiMutate(id) /\ UNCHANGED <<sinkVars, listVars, statVars, poolVars, exportVars, weightVars, fetchVars, batchVars, roundVars, pipeVars>>

InitCache == WeightIdle /\ ExportIdle /\ PoolsIdle /\ StatIdle /\ ListIdle /\ GpcIdle /\ BatchIdle /\ RoundIdle /\ FiInit /\ PipeIdle /\ SinksIdle

SpecCache == InitCache /\ [][FiNext]_vars

\* What a fetch of a fighter URL can deliver during the run.
Fetchable == {PageFull, PageRaises, NoPage}

CeNext ==
    \/ /\ ce_pc = "idle"
       /\ \E page \in Listings, cutoff \in Dates \cup {NoneInt} :
             CeCall(page, cutoff) /\ UNCHANGED <<fetchVars, batchVars, roundVars, cacheVars, sinkVars, statVars, poolVars, exportVars, weightVars>>
    \/ CeRow /\ UNCHANGED <<fetchVars, batchVars, roundVars, cacheVars, sinkVars, statVars, poolVars, exportVars, weightVars>>
    \/ CeReturn /\ UNCHANGED <<fetchVars, batchVars, roundVars, cacheVars, sinkVars, statVars, poolVars, exportVars, weightVars>>

InitEvents == WeightIdle /\ ExportIdle /\ PoolsIdle /\ StatIdle /\ ListIdle /\ GpcIdle /\ BatchIdle /\ RoundIdle /\ CacheIdle /\ PipeIdle /\ SinksIdle

SpecEvents == InitEvents /\ [][CeNext]_vars

StNext ==
    StCreate /\ UNCHANGED <<fetchVars, batchVars, roundVars, cacheVars, pipeVars, sinkVars, listVars, weightVars, exportVars, poolVars>>

InitStats ==
    PoolsIdle /\ ExportIdle /\ WeightIdle /\ StInit /\ ListIdle /\ GpcIdle /\ BatchIdle /\ RoundIdle /\ CacheIdle /\ PipeIdle /\ SinksIdle

SpecStats == InitStats /\ [][StNext]_vars

WcNext ==
    WcParse /\ UNCHANGED <<fetchVars, batchVars, roundVars, cacheVars, pipeVars, sinkVars, listVars, statVars, poolVars, exportVars>>

InitWeight ==
    WcInit /\ ExportIdle /\ PoolsIdle /\ StatIdle /\ ListIdle /\ GpcIdle /\ BatchIdle /\ RoundIdle /\ CacheIdle /\ PipeIdle /\ SinksIdle

SpecWeight == InitWeight /\ [][WcNext]_vars

ExNext ==
    ExRow /\ UNCHANGED <<fetchVars, batchVars, roundVars, cacheVars, pipeVars, sinkVars, listVars, statVars, poolVars, weightVars>>

InitExport ==
    ExInit /\ WeightIdle /\ PoolsIdle /\ StatIdle /\ ListIdle /\ GpcIdle /\ BatchIdle /\ RoundIdle /\ CacheIdle /\ PipeIdle /\ SinksIdle

SpecExport == InitExport /\ [][ExNext]_vars

RnNext ==
    \/ RnNextEvent /\ UNCHANGED <<fetchVars, batchVars, roundVars, cacheVars, pipeVars, sinkVars, listVars, statVars, weightVars, exportVars>>
    \/ RnFinish /\ UNCHANGED <<fetchVars, batchVars, roundVars, cacheVars, pipeVars, sinkVars, listVars, statVars, weightVars, exportVars>>
    \/ \E n \in 0..MaxBatch :
          RnFightLinks(n) /\ UNCHANGED <<fetchVars, batchVars, roundVars, cacheVars, pipeVars, sinkVars, listVars, statVars, weightVars, exportVars>>
    \/ \E p \in DOMAIN pools :
          PoolStart(p) /\ UNCHANGED <<fetchVars, batchVars, roundVars, cacheVars, pipeVars, sinkVars, listVars, statVars, weightVars, exportVars>>
    \/ \E p \in DOMAIN pools :
          PoolFinish(p) /\ UNCHANGED <<fetchVars, batchVars, roundVars, cacheVars, pipeVars, sinkVars, listVars, statVars, weightVars, exportVars>>
    \/ RnBatchReturn /\ UNCHANGED <<fetchVars, batchVars, roundVars, cacheVars, pipeVars, sinkVars, listVars, statVars, weightVars, exportVars>>
    \/ RnSkipLink /\ UNCHANGED <<fetchVars, batchVars, roundVars, cacheVars, pipeVars, sinkVars, listVars, statVars, weightVars, exportVars>>
    \/ RnParseFighters /\ UNCHANGED <<fetchVars, batchVars, roundVars, cacheVars, pipeVars, sinkVars, listVars, statVars, weightVars, exportVars>>
    \/ \E fetch \in BOOLEAN :
          RnFighterCall(fetch) /\ UNCHANGED <<fetchVars, batchVars, roundVars, cacheVars, pipeVars, sinkVars, listVars, statVars, weightVars, exportVars>>
    \/ RnFighterReturn /\ UNCHANGED <<fetchVars, batchVars, roundVars, cacheVars, pipeVars, sinkVars, listVars, statVars, weightVars, exportVars>>
    \/ RnFightsDone /\ UNCHANGED <<fetchVars, batchVars, roundVars, cacheVars, pipeVars, sinkVars, listVars, statVars, weightVars, exportVars>>

InitPools ==
    RnInit /\ ExportIdle /\ WeightIdle /\ StatIdle /\ ListIdle /\ GpcIdle /\ BatchIdle /\ RoundIdle /\ CacheIdle /\ PipeIdle /\ SinksIdle

SpecPools == InitPools /\ [][RnNext]_vars

Next ==
    \/ \E outcome \in SetupOutcomes :
          PlSetup(outcome) /\ UNCHANGED <<listVars, statVars, poolVars, exportVars, weightVars, fetchVars, batchVars, roundVars>>
    \/ /\ pl_pc = "create_events"
       /\ ce_pc = "idle"
       /\ \E page \in RunListings, cutoff \in RunCutoffs :
             CeCall(page, cutoff) /\ UNCHANGED <<fetchVars, batchVars, roundVars, cacheVars, sinkVars, statVars, poolVars, exportVars, weightVars>>
    \/ pl_pc = "create_events" /\ CeRow /\ UNCHANGED <<fetchVars, batchVars, roundVars, cacheVars, sinkVars, statVars, poolVars, exportVars, weightVars>>
    \/ pl_pc = "create_events" /\ CeReturn /\ UNCHANGED <<fetchVars, batchVars, roundVars, cacheVars, sinkVars, statVars, poolVars, exportVars, weightVars>>
    \/ PlCheckEvents /\ UNCHANGED <<listVars, statVars, poolVars, exportVars, weightVars, fetchVars, batchVars, roundVars>>
    \/ PlNextEvent /\ UNCHANGED <<sinkVars, listVars, statVars, poolVars, exportVars, weightVars, fetchVars, batchVars, roundVars>>
    \/ \E db_ok \in BOOLEAN :
          PlFinish(db_ok) /\ UNCHANGED <<listVars, statVars, poolVars, exportVars, weightVars, fetchVars, batchVars, roundVars>>
    \/ PlInterrupt /\ UNCHANGED <<listVars, statVars, poolVars, exportVars, weightVars, fetchVars, batchVars, roundVars>>
    \/ \E ok \in BOOLEAN, n \in 0..MaxFights :
          PlParseFightLinks(ok, n) /\ UNCHANGED <<sinkVars, listVars, statVars, poolVars, exportVars, weightVars, fetchVars, batchVars, roundVars>>
    \/ \E soups \in [Range(fight_links) -> BOOLEAN] :
          PlFetchFights(soups) /\ UNCHANGED <<sinkVars, listVars, statVars, poolVars, exportVars, weightVars, fetchVars, batchVars, roundVars>>
    \/ PlSkipFight /\ UNCHANGED <<sinkVars, listVars, statVars, poolVars, exportVars, weightVars, fetchVars, batchVars, roundVars>>
    \/ \E anchors \in FightAnchors :
          PlParseFighters(anchors) /\ UNCHANGED <<sinkVars, listVars, statVars, poolVars, exportVars, weightVars, fetchVars, batchVars, roundVars>>
    \/ \E pre \in Fetchable, got \in Fetchable :
          PlFighter(pre, got) /\ UNCHANGED <<sinkVars, listVars, statVars, poolVars, exportVars, weightVars, fetchVars, batchVars, roundVars>>
    \/ \E rov \in RoundsOfVictory :
          PlParseDetails(rov) /\ UNCHANGED <<sinkVars, listVars, statVars, poolVars, exportVars, weightVars, fetchVars, batchVars, roundVars>>
    \/ \E layout \in RoundLayouts :
          PlCreateRounds(layout) /\ UNCHANGED <<sinkVars, listVars, statVars, poolVars, exportVars, weightVars, fetchVars, batchVars, roundVars>>
    \/ PlFightsDone /\ UNCHANGED <<sinkVars, listVars, statVars, poolVars, exportVars, weightVars, fetchVars, batchVars, roundVars>>

Init == WeightIdle /\ ExportIdle /\ PoolsIdle /\ StatIdle /\ ListIdle /\ GpcIdle /\ BatchIdle /\ RoundIdle /\ CacheIdle /\ PlInit /\ SinksIdle

Spec == Init /\ [][Next]_vars

\* The run with its scheduling: the main thread keeps executing, so a step
\* of the program other than the arrival of a KeyboardInterrupt is taken
\* as long as one is possible (every request returns or times out).
FairSpec == Init /\ [][Next]_vars /\ WF_vars(Next /\ interrupted' = interrupted)

\* get_page_content and fetch_parallel with their scheduling: the calling
\* thread and the pool's threads keep executing.
FairSpecFetch == InitFetch /\ [][GpcNext]_vars /\ WF_vars(GpcNext)

FairSpecBatch == InitBatch /\ [][FpNext]_vars /\ WF_vars(FpNext)

(***************************************************************************)
(* Properties                                                              *)
(***************************************************************************)
Failed(o) == ~Succeeds(o)

\* The back-off sleeps issued so far, in order.
Backoffs == SelectSeq(sleeps, LAMBDA s : s.kind = "backoff")

ExpectedBackoffs == <<1, 2, 4, 8, 16>>

NoRepeat(s) == \A i, k \in DOMAIN s : s[i] = s[k] => i = k

\* C1 (as claimed): when fetch_parallel returns, the map holds every input
\* URL, each mapped to its soup or to None, and has exactly len(urls) entries.
C1_ExactlyLenUrlsEntries ==
    fp_pc = "returned" =>
        /\ DOMAIN results = Range(urls)
        /\ \A u \in DOMAIN results : results[u] \in {SoupOf(u), NoSoup}
        /\ Cardinality(DOMAIN results) = Len(urls)

\* C1 (amended): fetch_parallel never raises, and when it returns the keys
\* of the map are exactly the distinct input URLs, each mapped to the soup
\* or None that a worker for that URL produced (None for a worker that
\* raised); the map has as many entries as there are distinct URLs, which
\* is len(urls) when no URL is repeated. The outcome of one URL's worker
\* never changes another URL's entry.
C1_EveryDistinctUrlOnce ==
    /\ fp_pc # "raised"
    /\ fp_pc = "returned" =>
        /\ DOMAIN results = Range(urls)
        /\ Cardinality(DOMAIN results) = Cardinality(Range(urls))
        /\ NoRepeat(urls) => Cardinality(DOMAIN results) = Len(urls)
        /\ \A u \in DOMAIN results :
              /\ results[u] \in {SoupOf(u), NoSoup}
              /\ \E i \in DOMAIN futures :
                    /\ futures[i].url = u
                    /\ results[u] = (IF futures[i].raised THEN NoSoup ELSE futures[i].value)

\* C1 witness: a returned batch of distinct URLs in which one worker raised
\* and another URL's worker delivered its soup.
C1_Witness ==
    /\ fp_pc = "returned"
    /\ NoRepeat(urls)
    /\ \E i, k \in DOMAIN futures :
          /\ futures[i].raised
          /\ futures[k].value = SoupOf(futures[k].url)
          /\ results[futures[k].url] = SoupOf(futures[k].url)
          /\ results[futures[i].url] = NoSoup

\* C9: get_page_content never lets an exception out, and a call all of
\* whose attempts failed (whatever the kind of each failure) has used all
\* max_retries attempts and returns None.
C9_FailureReturnsNone ==
    /\ gpc_pc # "raised"
    /\ (gpc_pc = "returned" /\ \A i \in DOMAIN tried : Failed(tried[i]))
          => gpcResult = None /\ Len(tried) = max_retries

\* C9 witness: a call that returned None after a non-200 status, a request
\* error, a name-resolution error and another exception.
C9_Witness ==
    /\ gpc_pc = "returned"
    /\ gpcResult = None
    /\ \E i \in DOMAIN tried : tried[i].kind = "response" /\ tried[i].status # 200
    /\ \E i \in DOMAIN tried : tried[i].exc = "ConnectionError"
    /\ \E i \in DOMAIN tried : tried[i].exc = "NameResolutionError"
    /\ \E i \in DOMAIN tried : tried[i].exc = "FeatureNotFound"

\* C10: at most max_retries (5) attempts are made; a successful attempt is
\* the last one and ends the call with the document; the k-th failed attempt
\* is followed by a back-off of 2^(k-1) units: 1, 2, 4, 8, 16.
C10_AttemptsAndBackoff ==
    /\ Len(tried) <= max_retries
    /\ \A i \in DOMAIN tried :
          Succeeds(tried[i]) => i = Len(tried) /\ gpc_pc = "returned" /\ gpcResult = Doc
    /\ Len(Backoffs) <= Len(ExpectedBackoffs)
    /\ \A k \in DOMAIN Backoffs : Backoffs[k] = SleepBackoff(ExpectedBackoffs[k])
    /\ LET failures == Cardinality({i \in DOMAIN tried : Failed(tried[i])})
       IN  Len(Backoffs) = (IF gpc_pc = "backoff" THEN failures - 1 ELSE failures)

\* C10 witness: a call that succeeded on its fifth attempt, after the
\* back-offs 1, 2, 4, 8.
C10_Witness ==
    /\ gpc_pc = "returned"
    /\ gpcResult = Doc
    /\ Len(tried) = max_retries
    /\ Len(Backoffs) = max_retries - 1

\* The position in sleeps of the back-off that follows the i-th attempt.
BackoffIndex(i) ==
    CHOOSE k \in DOMAIN sleeps :
        /\ sleeps[k].kind = "backoff"
        /\ Cardinality({m \in 1..k : sleeps[m].kind = "backoff"}) = i

\* C21: every attempt that fails on name resolution sleeps the extra 10
\* units, and does so right before that attempt's exponential back-off.
C21_DnsFailureWaitsExtraTen ==
    \A i \in DOMAIN tried :
        tried[i].cause = "dns" =>
            IF Len(Backoffs) >= i
            THEN /\ BackoffIndex(i) > 1
                 /\ sleeps[BackoffIndex(i) - 1] = SleepDns
            ELSE /\ sleeps # <<>>
                 /\ sleeps[Len(sleeps)] = SleepDns

\* C20: get_page_content returns a document only after an attempt whose
\* response had status 200; a response with any other status yields no
\* document, is followed by the back-off sleep and then, if attempts remain,
\* by the next attempt, and otherwise by the return of None.
C20_OnlyStatus200YieldsDocument ==
    /\ gpcResult = Doc =>
          /\ tried # <<>>
          /\ tried[Len(tried)].kind = "response"
          /\ tried[Len(tried)].status = 200
    /\ \A i \in DOMAIN tried :
          (tried[i].kind = "response" /\ tried[i].status # 200) =>
             \/ i = Len(tried) /\ gpc_pc = "backoff" /\ gpcResult = "pending"
             \/ /\ Len(Backoffs) >= i
                /\ IF i < max_retries
                   THEN \/ Len(tried) > i
                        \/ Len(tried) = i /\ gpc_pc = "try" /\ attempt = i + 1
                   ELSE gpc_pc = "returned" /\ gpcResult = None

\* C20 witness: a call whose first response had status 404, which backed
\* off, retried, and returned the document of a later status-200 response.
C20_Witness ==
    /\ gpc_pc = "returned"
    /\ gpcResult = Doc
    /\ tried[1].kind = "response"
    /\ tried[1].status = 404
    /\ Len(tried) > 1
    /\ Len(Backoffs) = Len(tried) - 1

\* The table positions create_events is to retain: the rows after the
\* marker with no row on or before the cutoff at or above them.
Retained ==
    LET marker == FutureEvent(tbody)
        after == {k \in DOMAIN tbody : k > marker /\ "row" \in tbody[k].classes}
        old == {k \in after : start_date # NoneInt /\ tbody[k].date # NoneInt
                                /\ tbody[k].date[1] <= start_date[1]}
    IN  IF tbody \in NoListing \/ marker = 0 THEN {}
        ELSE {k \in after : \A j \in old : k < j}

SourceText(c) ==
    IF c = "takedowns"
    THEN IF totals_cells = NoCells THEN None ELSE totals_cells[c]
    ELSE IF sig_cells = NoCells THEN None ELSE sig_cells[c]

\* C12 (as claimed): once the RoundStats is built, a takedown, head, body,
\* leg, distance, clinch or ground counter whose source cell is absent or
\* does not read "X of Y" is None, not -1 and not 0.
C12_UnparsedCounterIsNone ==
    st_pc = "done" =>
        \A c \in {"takedowns"} \cup SigCells :
            SourceText(c) \notin {"2 of 5", "0 of 0"} => stats[c] = Unknown

\* self.fights.append(fight) is executed by the step.
Appends == Len(events'[ev].fights) = Len(events[ev].fights) + 1

\* C13 (as claimed): a Fight whose victory round could not be parsed keeps
\* round_of_victory = None and is still appended to its Event: the step
\* that follows the details never drops it.
C13_MissingRoundKeepsFight ==
    [][pl_pc = "create_rounds" /\ fight.round_of_victory = NoneInt => Appends]_vars

\* C14 (as claimed): a Round built from a page on which its "Round N"
\* header is not found raises nothing: it comes out empty.
C14_MissingHeaderYieldsEmptyRound ==
    rd_pc = "done" /\ headers = <<>> => round.raised = ""

\* C15 (as claimed): a run ended by a KeyboardInterrupt has flushed the
\* fights accumulated so far to the database and to the CSV file.
C15_InterruptFlushesBothSinks ==
    pl_pc = "finished" /\ interrupted /\ HasRows(events) =>
        /\ sql = Written(Rows(events))
        /\ csv = Written(Rows(events))

\* The four parsed fields of a Fighter.
Fields(f) == <<f.name, f.height_in, f.reach_in, f.dob>>

\* C16 (as claimed): any two Fighters returned for the same URL (and left
\* as they were returned) have the same name, height, reach and birth date.
C16_SameUrlSameFields ==
    \A r1, r2 \in resolved :
        /\ r1.link = r2.link
        /\ heap[r1.obj].name # Mutated
        /\ heap[r2.obj].name # Mutated
        => Fields(heap[r1.obj]) = Fields(heap[r2.obj])

\* The Fighters returned on a cache hit.
HitObjects == {r.obj : r \in {x \in resolved : x.path = "hit"}}

\* C17: a constructor that returns on a hit returns an object that is not
\* the cached one and carries the cached entry's four fields; and assigning
\* to a field of such an object changes no cached Fighter.
C17_HitReturnsValueCopy ==
    [][/\ \A r \in resolved' \ resolved :
            r.path = "hit" =>
                /\ r.obj # FIGHTER_CACHE[r.link]
                /\ Fields(heap'[r.obj]) = Fields(heap[FIGHTER_CACHE[r.link]])
       /\ (\E id \in HitObjects : heap'[id] # heap[id]) =>
                \A l \in DOMAIN FIGHTER_CACHE :
                    /\ FIGHTER_CACHE'[l] = FIGHTER_CACHE[l]
                    /\ heap'[FIGHTER_CACHE[l]] = heap[FIGHTER_CACHE[l]]]_vars

\* C17 witness: a Fighter returned on a hit has been assigned a new name
\* while the cached Fighter of its URL still has the parsed one.
C17_Witness ==
    \E r \in resolved :
        /\ r.path = "hit"
        /\ heap[r.obj].name = Mutated
        /\ r.link \in DOMAIN FIGHTER_CACHE
        /\ heap[FIGHTER_CACHE[r.link]].name = "Ann"

\* C18: at every moment of a fetch_parallel call, at most max_workers of
\* its get_page_content calls are in progress.
C18_AtMostMaxWorkersRunning ==
    Cardinality(Running) <= max_workers

\* C18 witness: a pool of width 2 with both threads inside
\* get_page_content while a third submitted URL waits in the queue.
C18_Witness ==
    /\ max_workers = 2
    /\ Cardinality(Running) = 2
    /\ Queued # {}

\* C19: the rounds of every fight retained in an event are numbered
\* 1, 2, ..., N in list order, without gap or repeat, and N is the fight's
\* round of victory; a fight without a round of victory has no rounds.
C19_RoundsAscendingToVictoryRound ==
    \A e \in DOMAIN events : \A i \in DOMAIN events[e].fights :
        LET f == events[e].fights[i]
        IN  /\ \A n \in DOMAIN f.rounds : f.rounds[n].round_number = n
            /\ IF f.round_of_victory = NoneInt
               THEN f.rounds = <<>>
               ELSE Len(f.rounds) = f.round_of_victory[1]

\* C19 witness: an event retains a fight won in round 2 whose rounds list
\* holds two rounds.
C19_Witness ==
    \E e \in DOMAIN events : \E i \in DOMAIN events[e].fights :
        /\ events[e].fights[i].round_of_victory = SomeInt(2)
        /\ Len(events[e].fights[i].rounds) = 2

\* The priority list of the weight-class keywords, first to last.
PriorityKeywords ==
    <<<<"c", "a", "t", "c", "h">>,
      <<"l", "i", "g", "h", "t", " ", "h", "e", "a", "v", "y">>,
      <<"s", "t", "r", "a", "w">>,
      <<"f", "l", "y">>,
      <<"b", "a", "n", "t", "a", "m">>,
      <<"f", "e", "a", "t", "h", "e", "r">>,
      <<"l", "i", "g", "h", "t">>,
      <<"w", "e", "l", "t", "e", "r">>,
      <<"m", "i", "d", "d", "l", "e">>,
      <<"h", "e", "a", "v", "y">>>>

LightHeavy == <<"l", "i", "g", "h", "t", " ", "h", "e", "a", "v", "y">>

\* The limit map_weight_class's table gives a keyword.
LimitOf(key) ==
    mapping[CHOOSE i \in DOMAIN mapping : mapping[i].key = key].limit

\* The limit of the first keyword of the priority list occurring in the
\* lower-cased label, None when none occurs.
FirstKeywordLimit(label) ==
    LET found == {i \in DOMAIN PriorityKeywords : Occurs(PriorityKeywords[i], Lower(label))}
    IN  IF found = {} THEN NoneInt
        ELSE SomeInt(LimitOf(PriorityKeywords[CHOOSE i \in found : \A k \in found : i <= k]))

LightHeavyweightTitleBout ==
    <<"L", "i", "g", "h", "t", " ", "H", "e", "a", "v", "y", "w", "e", "i", "g", "h", "t", " ", "T", "i", "t", "l", "e", " ", "B", "o", "u", "t">>

\* C23 (as claimed): the weight class of every label is the limit of the
\* first priority keyword occurring in it, case-insensitively, or unknown;
\* every label containing 'light heavy' maps to 205; and 'Light Heavyweight
\* Title Bout' gives 205 with title_fight set.
C23_LightHeavyAlways205 ==
    wc_pc = "done" =>
        /\ weighed.weight_class = FirstKeywordLimit(weight_class_str)
        /\ Occurs(LightHeavy, Lower(weight_class_str)) =>
               weighed.weight_class = SomeInt(205)
        /\ weight_class_str = LightHeavyweightTitleBout =>
               weighed.weight_class = SomeInt(205) /\ weighed.title_fight

\* C23 (amended): the weight class of every label is the limit of the
\* first priority keyword occurring in it, case-insensitively, or unknown;
\* a label containing 'light heavy' never maps to 155 and maps to 205
\* unless it also contains 'catch', which comes first and gives 0; and
\* 'Light Heavyweight Title Bout' gives 205 with title_fight set.
C23_LightHeavy205UnlessCatch ==
    wc_pc = "done" =>
        /\ weighed.weight_class = FirstKeywordLimit(weight_class_str)
        /\ Occurs(LightHeavy, Lower(weight_class_str)) =>
               /\ weighed.weight_class # SomeInt(155)
               /\ weighed.weight_class =
                     (IF Occurs(PriorityKeywords[1], Lower(weight_class_str))
                      THEN SomeInt(0) ELSE SomeInt(205))
        /\ weight_class_str = LightHeavyweightTitleBout =>
               weighed.weight_class = SomeInt(205) /\ weighed.title_fight

\* C23 witness: 'Light Heavyweight Title Bout' has been parsed to 205 with
\* title_fight set.
C23_Witness ==
    /\ wc_pc = "done"
    /\ weight_class_str = LightHeavyweightTitleBout
    /\ weighed.weight_class = SomeInt(205)
    /\ weighed.title_fight

\* C24: the row of every fight has exactly 5 round blocks per side; with N
\* rounds (N <= 5) the blocks 1..N hold the statistics of side A and of side
\* B of that round, and the blocks N+1..5 hold only unknown values.
C24_FiveBlocksPaddedWithUnknown ==
    ex_pc = "done" =>
        LET rounds == ex_fight.rounds
            cols == base_row.columns
        IN  /\ DOMAIN cols = (1..5) \X {"a", "b"} \X Range(round_stat_fields)
            /\ \A n \in 1..5, f \in Range(round_stat_fields) :
                  IF n <= Len(rounds)
                  THEN /\ cols[<<n, "a", f>>] = rounds[n].fighter_a_roundstats[f]
                       /\ cols[<<n, "b", f>>] = rounds[n].fighter_b_roundstats[f]
                  ELSE /\ cols[<<n, "a", f>>] = NoneInt
                       /\ cols[<<n, "b", f>>] = NoneInt

\* C24 witness: the row of a fight won in round 2, whose two rounds have
\* statistics for both sides; the blocks of rounds 1-2 hold them and the
\* blocks of rounds 3-5 are unknown.
C24_Witness ==
    /\ ex_pc = "done"
    /\ base_row.round_of_victory = SomeInt(2)
    /\ Len(ex_fight.rounds) = 2
    /\ \A n \in 1..2 : /\ ex_fight.rounds[n].fighter_a_roundstats = StatsOf(1, n)
                       /\ ex_fight.rounds[n].fighter_b_roundstats = StatsOf(2, n)
    /\ base_row.columns[<<2, "b", "knockdowns">>] = StatsOf(2, 2)["knockdowns"]
    /\ base_row.columns[<<3, "a", "knockdowns">>] = NoneInt

\* C22: when the events page is not fetched, or its table, the table body
\* or the marker row is missing, create_events returns leaving events
\* empty, and the run goes from there to its end without fetching an event
\* page, a fight page or a fighter page.
C22_NoListingNoEventsNoFetch ==
    (ce_pc = "returned" /\ (tbody \in NoListing \/ FutureEvent(tbody) = 0)) =>
        /\ events = <<>>
        /\ pl_pc \in {"create_events", "finished"}
        /\ ~escaped
        /\ ev = 0
        /\ fight_links = <<>>
        /\ fight_soups = <<>>
        /\ visited = {}
        /\ \A u \in DOMAIN fetched : fetched[u] = 0

\* C22 witness: a run over an events page that has an event row but no
\* marker row, with no cutoff date, has ended through the early return.
C22_Witness ==
    /\ ce_pc = "returned"
    /\ Len(tbody) = 1
    /\ tbody[1].classes = {"row"}
    /\ start_date = NoneInt
    /\ pl_pc = "finished"
    /\ ~interrupted

\* The Fight objects held by the events of the run.
AllFights ==
    UNION {{events[e].fights[i] : i \in DOMAIN events[e].fights} : e \in DOMAIN events}

\* The steps a run can still take, at most: a bound that every step of
\* the run lowers. A fight takes at most 5 steps (parse_fighters, the two
\* Fighter constructions, the details, create_rounds), an event its fights
\* and 4 steps more, create_events a step per listed row and 3 more.
FightSteps == 5 + 1

EventSteps == 4 + FightSteps * MaxFights

MaxRunRows ==
    CHOOSE n \in {Len(page) : page \in RunListings} : \A page \in RunListings : Len(page) <= n

FightRank ==
    CASE pl_pc = "fighter_a" -> 4
      [] pl_pc = "fighter_b" -> 3
      [] pl_pc = "details" -> 2
      [] pl_pc = "create_rounds" -> 1
      [] OTHER -> 0

EventWork ==
    CASE pl_pc = "links" -> 3 + FightSteps * MaxFights
      [] pl_pc = "fetch" -> 2 + FightSteps * Len(fight_links)
      [] pl_pc = "fights" -> 1 + FightSteps * (Len(fight_links) - li + 1)
      [] pl_pc \in {"fighter_a", "fighter_b", "details", "create_rounds"} ->
            1 + FightRank + FightSteps * (Len(fight_links) - li)
      [] OTHER -> 0

LoopWork == 1 + EventWork + EventSteps * (Len(events) - ev)

MaxLoopWork == 1 + EventSteps * MaxRunRows

CreateEventsWork ==
    CASE ce_pc = "idle" -> 3 + MaxRunRows
      [] ce_pc = "rows" -> 2 + (Len(event_rows) - ce_i + 1)
      [] OTHER -> 1

StepsLeft ==
    CASE pl_pc = "finished" -> 0
      [] pl_pc = "setup" -> MaxLoopWork + CreateEventsWork + 1
      [] pl_pc = "create_events" -> MaxLoopWork + CreateEventsWork
      [] OTHER -> LoopWork

\* One step of Next for each place the run can be at, none of them the
\* arrival of an interrupt: the inputs are the ones under which the page
\* was not fetched, the links were not two, or the round is unknown.
OneStep ==
    \/ PlSetup("ok") /\ UNCHANGED <<listVars, statVars, exportVars, weightVars, fetchVars, batchVars, roundVars>>
    \/ /\ pl_pc = "create_events"
       /\ ce_pc = "idle"
       /\ CeCall(IndexNotFetched, NoneInt)
       /\ UNCHANGED <<fetchVars, batchVars, roundVars, cacheVars, sinkVars, statVars, exportVars, weightVars>>
    \/ pl_pc = "create_events" /\ CeRow /\ UNCHANGED <<fetchVars, batchVars, roundVars, cacheVars, sinkVars, statVars, exportVars, weightVars>>
    \/ pl_pc = "create_events" /\ CeReturn /\ UNCHANGED <<fetchVars, batchVars, roundVars, cacheVars, sinkVars, statVars, exportVars, weightVars>>
    \/ PlCheckEvents /\ UNCHANGED <<listVars, statVars, exportVars, weightVars, fetchVars, batchVars, roundVars>>
    \/ PlNextEvent /\ UNCHANGED <<sinkVars, listVars, statVars, exportVars, weightVars, fetchVars, batchVars, roundVars>>
    \/ PlFinish(TRUE) /\ UNCHANGED <<listVars, statVars, exportVars, weightVars, fetchVars, batchVars, roundVars>>
    \/ PlParseFightLinks(FALSE, 0) /\ UNCHANGED <<sinkVars, listVars, statVars, exportVars, weightVars, fetchVars, batchVars, roundVars>>
    \/ PlFetchFights([l \in Range(fight_links) |-> FALSE]) /\ UNCHANGED <<sinkVars, listVars, statVars, exportVars, weightVars, fetchVars, batchVars, roundVars>>
    \/ PlSkipFight /\ UNCHANGED <<sinkVars, listVars, statVars, exportVars, weightVars, fetchVars, batchVars, roundVars>>
    \/ PlParseFighters(<<"fighter/a">>) /\ UNCHANGED <<sinkVars, listVars, statVars, exportVars, weightVars, fetchVars, batchVars, roundVars>>
    \/ PlFighter(NoPage, NoPage) /\ UNCHANGED <<sinkVars, listVars, statVars, exportVars, weightVars, fetchVars, batchVars, roundVars>>
    \/ PlParseDetails(NoneInt) /\ UNCHANGED <<sinkVars, listVars, statVars, exportVars, weightVars, fetchVars, batchVars, roundVars>>
    \/ PlCreateRounds([n \in 1..2 |-> "noheader"]) /\ UNCHANGED <<sinkVars, listVars, statVars, exportVars, weightVars, fetchVars, batchVars, roundVars>>
    \/ PlFightsDone /\ UNCHANGED <<sinkVars, listVars, statVars, exportVars, weightVars, fetchVars, batchVars, roundVars>>

\* C25: every run terminates: until the run has finished a step of the
\* program is always possible without any interrupt, and every step lowers
\* the bounded number of steps left, so that no attempt, batch, fight or
\* event is retried or queued again.
C25_RunTerminates ==
    /\ [](StepsLeft \in Nat)
    /\ [](pl_pc # "finished" => ENABLED OneStep)
    /\ [][StepsLeft' < StepsLeft]_vars

\* Every run comes to its end.
EventuallyFinished == <>(pl_pc = "finished")

\* C25 witness: an uninterrupted run has ended after going through both
\* events, one fight of which failed and was not taken up again.
C25_Witness ==
    /\ pl_pc = "finished"
    /\ ~interrupted
    /\ Len(events) = 2
    /\ ev = 2
    /\ \E l \in visited : \A f \in AllFights : f.link # l

\* C26: once main has left (by normal completion, a failing to_sql, an
\* exception before the loop, the early return without new events, or an
\* interrupt), the CSV export holds a row for every fight collected up to
\* that point; nothing is written only when no fight was collected.
C26_CsvWrittenOnEveryExit ==
    pl_pc = "finished" =>
        /\ HasRows(events) => csv = Written(Rows(events))
        /\ ~HasRows(events) => csv = NotWritten

\* main left through a failing to_sql with a fight collected: the database
\* has nothing, the CSV has the fight.
C26_Witness ==
    /\ pl_pc = "finished"
    /\ ~interrupted
    /\ HasRows(events)
    /\ sql = NotWritten
    /\ csv = Written(Rows(events))

RECURSIVE RunningIn(_)
\* The work items being executed by the threads of the executors ps.
RunningIn(ps) == IF ps = <<>> THEN 0 ELSE Head(ps).running + RunningIn(Tail(ps))

\* The get_page_content calls in progress: those of the orchestrating
\* thread and those of the pools' threads.
InFlight ==
    (IF own_request THEN 1 ELSE 0)
    + (IF WorkItem = "get_page_content" THEN RunningIn(pools) ELSE 0)

\* The Fighter constructions in progress, on whichever thread.
Resolving ==
    (IF constructing THEN 1 ELSE 0)
    + (IF WorkItem = "Fighter" THEN RunningIn(pools) ELSE 0)

\* C27: at most one executor has work at any time, it has none left when
\* the orchestrating thread goes on (to the Fights of the event, to the
\* Fighters of a fight, to the next link or the next event, or to a request
\* of its own), and at most 10 requests are in flight.
C27_PoolsNeverOverlap ==
    /\ Len(pools) <= 1
    /\ rn_pc \notin {"fight_batch", "fighter_batch"} => pools = <<>>
    /\ own_request => pools = <<>>
    /\ InFlight <= 10

\* The fight pages of an event with more than 10 links are being fetched:
\* 10 requests are in flight and a link is still queued.
C27_Witness ==
    /\ rn_pc = "fight_batch"
    /\ rn_ev = 2
    /\ InFlight = 10
    /\ pools[1].queued > 0

\* C28: a Fighter is constructed only by the orchestrating thread and only
\* while no executor has work; the pools' threads construct none, so at
\* most one construction is in progress.
C28_ResolutionOnOrchestratorOnly ==
    /\ constructing => pools = <<>> /\ rn_pc \in {"fighter_a", "fighter_b"}
    /\ Resolving <= 1
    /\ Resolving = (IF constructing THEN 1 ELSE 0)

\* The second Fighter of a fight is being constructed and fetches its page
\* itself, after the pool of parse_fighters is gone.
C28_Witness ==
    /\ rn_pc = "fighter_b"
    /\ constructing
    /\ own_request
    /\ pools = <<>>
    /\ Resolving = 1

\* The resolutions that returned from the miss path for a URL.
Misses(link) == {r \in resolved : r.path = "miss" /\ r.link = link}

\* C29 (as claimed): the instance returned to the first resolver of a URL
\* is the object the cache holds for it from then on, so every later hit
\* for the URL copies the fields that instance has at the time of the hit.
C29_CacheKeepsFirstResolversInstance ==
    [][\A l \in CacheLinks : \A r \in Misses(l) :
          Misses(l) = {r} =>
              /\ l \in DOMAIN FIGHTER_CACHE' /\ FIGHTER_CACHE'[l] = r.obj
              /\ \A h \in resolved' \ resolved :
                    h.path = "hit" /\ h.link = l =>
                        Fields(heap'[h.obj]) = Fields(heap[r.obj])]_vars

\* The listing rows after the marker row, in page order.
AfterMarker == FindNextSiblings(tbody, FutureEvent(tbody))

GpcTerminates == <>(gpc_pc \in {"returned", "raised"})

FpTerminates == <>(fp_pc \in {"returned", "raised"})

\* The threads on the miss path of Fighter.__init__ for a link.
OnMissPath(link) ==
    {t \in DOMAIN th : th[t].pc \in {"create", "lock2", "insert"}
                       /\ heap[th[t].self].link = link}

\* C2 (as claimed): once a fighter URL is in FIGHTER_CACHE, no step of the
\* run issues another fetch of that URL.
C2_NoFetchOnceCached ==
    [][\A l \in CacheLinks : l \in DOMAIN FIGHTER_CACHE => fetched'[l] = fetched[l]]_vars

\* C3 (as claimed): the lookup and the insert-on-miss are one critical
\* section: never are two threads on the miss path for the same URL, and no
\* URL is inserted into the cache twice.
C3_LookupAndInsertAtomic ==
    \A l \in CacheLinks :
        /\ Cardinality(OnMissPath(l)) <= 1
        /\ inserts[l] <= 1

\* C4 (as claimed): every entry of FIGHTER_CACHE is a Fighter with a name.
C4_CachedHaveName ==
    \A l \in DOMAIN FIGHTER_CACHE : heap[FIGHTER_CACHE[l]].name # None

\* C5 (as claimed): every Fight in an Event's fights has both fighters
\* resolved: their records carry the parsed name.
C5_AppendedFightersResolved ==
    \A f \in AllFights :
        /\ heap[f.fighter_a].name # None
        /\ heap[f.fighter_b].name # None

\* C6: no exception leaves create_fights; whenever create_fights is not
\* running, the loop body has run for every fight link of the event it was
\* last called for; and the run only ends after the last event (unless
\* the operator interrupts it).
C6_FailureSkipsOnlyThatFight ==
    /\ ~escaped
    /\ pl_pc \in {"main", "finished"} /\ ~interrupted
          => Range(fight_links) \subseteq visited
    /\ pl_pc = "finished" /\ ~interrupted => ev = Len(events)

\* C6 witness: the run has ended; the construction of the first fight of
\* the first event raised after both its Fighter objects were made (they
\* are on the heap, in no Fight), the second fight of that event was still
\* built and appended, and so was a fight of the second event.
C6_Witness ==
    /\ pl_pc = "finished"
    /\ ~interrupted
    /\ Len(events) = 2
    /\ Len(events[1].fights) = 1
    /\ events[1].fights[1].link = <<1, 2>>
    /\ events[1].fights[1].fighter_a = 3
    /\ events[2].fights # <<>>

\* The totals row create_round reads, and the identity token of the row at
\* table position pos (None when the page has no such row).
TotalsTr == (headers \o <<NoTr, NoTr>>)[1]

HasRow(pos) == TotalsTr.tr /\ Len(TotalsTr.p) >= pos + 1

RowToken(pos) == IF HasRow(pos) THEN TotalsTr.p[pos + 1].href ELSE None

link_a == fighter_links[1]
link_b == fighter_links[2]

\* Each of the two rows is matched to exactly one expected participant and
\* each participant to one row.
Bijective ==
    /\ HasRow(0) /\ HasRow(1)
    /\ \/ RowToken(0) = link_a /\ RowToken(1) = link_b
       \/ RowToken(0) = link_b /\ RowToken(1) = link_a

\* C7 (as claimed): whenever the two rows cannot each be matched to exactly
\* one of the two expected participant URLs, Round construction fails.
C7_MismatchAlwaysRaises ==
    (rd_pc = "done" /\ ~Bijective) => round.raised # ""

\* For two different expected URLs the check of create_round does reject
\* every non-bijective pair of rows, and accepts every bijective one.
DistinctLinksMismatchRaises ==
    (rd_pc = "done" /\ link_a # link_b) => (Bijective <=> round.raised = "")

\* The page with the two table positions exchanged.
SwappedHeaders ==
    [headers EXCEPT ![1] = Tr(<<TotalsTr.p[2], TotalsTr.p[1]>>)]

\* The table position of the row whose token is link.
PositionOf(link) == IF RowToken(0) = link THEN 0 ELSE 1

\* C8: when the two rows carry the tokens {urlA, urlB} of a Match expecting
\* (urlA, urlB), construction succeeds, side A gets the statistics of the
\* row whose token is urlA and side B those of the row whose token is urlB,
\* and exchanging the two table positions changes neither side's statistics.
C8_SidesFollowTokens ==
    (rd_pc = "done" /\ link_a # link_b /\ HasRow(0) /\ HasRow(1)
        /\ {RowToken(0), RowToken(1)} = {link_a, link_b})
    => LET pa == PositionOf(link_a)
           pb == PositionOf(link_b)
           swapped == CreateRound(SwappedHeaders, fighter_links)
       IN  /\ round.raised = ""
           /\ round.fighter_a_roundstats =
                [raised |-> "", position |-> pa, fighter_link |-> link_a,
                 knockdowns |-> ToInt(TotalsTr.p[pa + 1].kd)]
           /\ round.fighter_b_roundstats =
                [raised |-> "", position |-> pb, fighter_link |-> link_b,
                 knockdowns |-> ToInt(TotalsTr.p[pb + 1].kd)]
           /\ swapped.raised = ""
           /\ swapped.fighter_a_roundstats.fighter_link = link_a
           /\ swapped.fighter_a_roundstats.knockdowns = round.fighter_a_roundstats.knockdowns
           /\ swapped.fighter_b_roundstats.fighter_link = link_b
           /\ swapped.fighter_b_roundstats.knockdowns = round.fighter_b_roundstats.knockdowns

\* C8 witness: a constructed Round whose rows stand in the opposite order
\* to the Match's participants and carry different knockdown counts.
C8_Witness ==
    /\ rd_pc = "done"
    /\ round.raised = ""
    /\ link_a # link_b
    /\ RowToken(0) = link_b /\ RowToken(1) = link_a
    /\ round.fighter_a_roundstats.knockdowns = SomeInt(2)
    /\ round.fighter_b_roundstats.knockdowns = SomeInt(0)

====
